---- MODULE Spec2Model ----
(***************************************************************************)
(* A model of memx: the pattern-sharing scheduler (synth/ISO.py), the      *)
(* crossbar (core/hardware/Crossbar.py), the topology of crossbars         *)
(* (core/hardware/Topology.py) and the 2D mapper                           *)
(* (synth/CrossbarMapping2D.py).                                           *)
(***************************************************************************)
EXTENDS Integers, Sequences, FiniteSets, TLC

VARIABLES
    \* ---- ISO (synth/ISO.py) ----
    topology,           \* topological_generations(reverse(bdd_topology.topology))
    bdds,               \* bdd_topology.bdds: root node -> BDD (hash, nodes, edges)
    D,                  \* the size budget, or NoBudget
    pc,                 \* the phase ISO.find is in
    root_node_to_hash,
    bdd_pattern_stats,  \* insertion-ordered: <<hash, <<nr_bdds, nodes, edges>>>>
    generations,
    new_generations,    \* the leveled generations built by the worklist loop
    mid,
    cycles,
    fixed_bdds,
    variable_bdd,
    gi,                 \* the index i of the emission loop (1-based)
    \* ---- Crossbar (core/hardware/Crossbar.py) ----
    crossbar,           \* the crossbar object the operations are called on
    last,               \* the last call: its arguments, the receiver before it, its result
    \* ---- Topology.eval (core/hardware/Topology.py) ----
    topo_nodes,         \* self.graph.nodes: the crossbars, in the order they were added
    topo_edges,         \* self.graph.edges: <<u, v>> by position in topo_nodes, as added
    topo_instance,      \* the argument instance
    topo_input_function, \* the argument input_function
    evaluations,        \* the running map
    tpc,                \* the line Topology.eval is at
    node_index,         \* the position of the outer loop in nodes (1-based)
    pending,            \* the input rails of the node the inner loop has yet to visit
    \* ---- VHLabeling and CrossbarMapping2D (synth/) ----
    self_graph,         \* self.graph: the diagram
    gamma,              \* config.gamma, in halves (0, 1, 2 for 0, 0.5, 1)
    x_vars,             \* the values the solver gave x_vars
    vh_labeling,
    io_constraints,     \* config.io_constraints
    horizontal,
    vertical,
    placements,         \* the calls set_memristor(r, c, literal) made so far
    mpc,                \* the line map is at
    \* ---- to_string / from_string ----
    content,            \* the text to_string returned
    parsed,             \* the outcome of from_string(content)
    iopc

isoVars == <<topology, bdds, D, pc, root_node_to_hash, bdd_pattern_stats,
             generations, new_generations, mid, cycles, fixed_bdds, variable_bdd, gi>>

xbarVars == <<crossbar, last>>

topoVars == <<topo_nodes, topo_edges, topo_instance, topo_input_function, evaluations, tpc, node_index, pending>>

mapVars == <<self_graph, gamma, x_vars, vh_labeling, io_constraints, horizontal, vertical,
             placements, mpc>>

ioVars == <<content, parsed, iopc>>

nonIsoVars == <<xbarVars, topoVars, mapVars, ioVars>>

nonXbarVars == <<isoVars, topoVars, mapVars, ioVars>>

nonTopoVars == <<isoVars, xbarVars, mapVars, ioVars>>

nonMapVars == <<isoVars, last, topoVars, ioVars>>

nonIoVars == <<isoVars, last, topoVars, mapVars>>

vars == <<isoVars, xbarVars, topoVars, mapVars, ioVars>>

None == "None"

\* No crossbar has been constructed.
NoCrossbar == /\ crossbar = None
              /\ last = None

\* Topology.eval is not running.
TopoOff ==
    /\ topo_nodes = <<>>
    /\ topo_edges = <<>>
    /\ topo_instance = <<>>
    /\ topo_input_function = None
    /\ evaluations = <<>>
    /\ tpc = "Off"
    /\ node_index = 0
    /\ pending = <<>>

\* No mapper has been constructed.
MapOff ==
    /\ self_graph = None
    /\ gamma = 0
    /\ x_vars = <<>>
    /\ vh_labeling = <<>>
    /\ io_constraints = FALSE
    /\ horizontal = <<>>
    /\ vertical = <<>>
    /\ placements = <<>>
    /\ mpc = "Off"

\* No text has been written.
IoOff ==
    /\ content = <<>>
    /\ parsed = None
    /\ iopc = "Off"

\* self.dimension = None: no budget was given.
NoBudget == -1

(***************************************************************************)
(* Bounds of the model.                                                    *)
(***************************************************************************)
\* The root nodes a topology is drawn from, in the order of bdds.items().
RootNodes == {1, 2, 3, 4}
\* The digests, in the order of their first use.
Hashes == <<"h1", "h2", "h3">>
\* The most nodes of one diagram.
MaxSize == 2
\* The largest size budget.
MaxD == 4
\* The most patterns of a pattern table drawn on its own.
MaxPatterns == 3

(***************************************************************************)
(* Generic helpers on sequences and sets.                                  *)
(***************************************************************************)
Range(s) == {s[k] : k \in DOMAIN s}

Max2(a, b) == IF a >= b THEN a ELSE b

Min2(a, b) == IF a <= b THEN a ELSE b

RECURSIVE SumSeq(_)
SumSeq(s) == IF s = <<>> THEN 0 ELSE Head(s) + SumSeq(Tail(s))

RECURSIVE MaxSeq(_)
MaxSeq(s) == IF Len(s) = 1 THEN s[1] ELSE Max2(Head(s), MaxSeq(Tail(s)))

Reverse(s) == [k \in 1..Len(s) |-> s[Len(s) + 1 - k]]

\* Every order in which the elements of a set can be iterated.
Orders(S) == {s \in [1..Cardinality(S) -> S] : \A a, b \in 1..Cardinality(S) : s[a] = s[b] => a = b}

\* The elements of a set of integers in ascending order.
RECURSIVE Ascending(_)
Ascending(S) ==
    IF S = {} THEN <<>>
    ELSE LET m == CHOOSE x \in S : \A y \in S : x <= y
         IN <<m>> \o Ascending(S \ {m})

\* A slice that takes a negative bound for an empty prefix.
PySliceToClamped(s, m) == SubSeq(s, 1, Min2(Max2(m, 0), Len(s)))

\* Python's s[:m] and s[m:], negative m counting from the end.
PySliceTo(s, m) ==
    IF m >= 0 THEN SubSeq(s, 1, Min2(m, Len(s)))
    ELSE SubSeq(s, 1, Max2(Len(s) + m, 0))

PySliceFrom(s, m) ==
    IF m >= 0 THEN SubSeq(s, Min2(m, Len(s)) + 1, Len(s))
    ELSE SubSeq(s, Max2(Len(s) + m, 0) + 1, Len(s))

(***************************************************************************)
(* ISO.find, pattern discovery (lines 67-112).                             *)
(***************************************************************************)
LOAD(h) == [type |-> "LOAD", hash |-> h]

EVAL(h) == [type |-> "EVAL", hash |-> h]

\* bdds.keys()
BddNodes(b) == DOMAIN b

\* root_node_to_hash.get(x)
HashGet(r2h, x) == IF x \in DOMAIN r2h THEN r2h[x] ELSE None

RootNodeToHash(b) == [n \in BddNodes(b) |-> b[n].hash]

\* bdd_patterns, as the list of its keys in insertion order: bdds.items() is
\* walked in dictionary order, here the order of the node numbers.
RECURSIVE PatternKeys(_, _)
PatternKeys(b, nodes) ==
    IF nodes = <<>> THEN <<>>
    ELSE LET rest == PatternKeys(b, SubSeq(nodes, 1, Len(nodes) - 1))
             h == b[nodes[Len(nodes)]].hash
         IN IF h \in Range(rest) THEN rest ELSE Append(rest, h)

\* bdd_pattern_stats[bdd_hash] = [len(bdds), len(bdd.dag.nodes), len(bdd.dag.edges)]
PatternStats(b) ==
    LET keys == PatternKeys(b, Ascending(BddNodes(b)))
        members(h) == {n \in BddNodes(b) : b[n].hash = h}
        first(h) == CHOOSE n \in members(h) : TRUE
    IN [k \in 1..Len(keys) |->
          <<keys[k], <<Cardinality(members(keys[k])), b[first(keys[k])].nodes, b[first(keys[k])].edges>>>>]

\* lines 79-86: the nodes without a BDD (primary inputs) are removed.
RemovePrimaryInputs(gens, b) ==
    [g \in 1..Len(gens) |-> SelectSeq(gens[g], LAMBDA n : n \in BddNodes(b))]

(***************************************************************************)
(* ISO.find, generation leveling (lines 143-169).                          *)
(***************************************************************************)
\* hash_to_nodes of one generation: insertion-ordered <<hash, nodes>>.
RECURSIVE HashToNodes(_, _, _)
HashToNodes(hash_generation, root_node_generation, k) ==
    IF k = 0 THEN <<>>
    ELSE LET sofar == HashToNodes(hash_generation, root_node_generation, k - 1)
             bdd_hash == hash_generation[k]
             root_node == root_node_generation[k]
             at == {j \in 1..Len(sofar) : sofar[j][1] = bdd_hash}
         IN IF at = {} THEN Append(sofar, <<bdd_hash, <<root_node>>>>)
            ELSE [j \in 1..Len(sofar) |->
                    IF j \in at THEN <<sofar[j][1], Append(sofar[j][2], root_node)>> ELSE sofar[j]]

RECURSIVE Flatten(_)
Flatten(ss) == IF ss = <<>> THEN <<>> ELSE Head(ss) \o Flatten(Tail(ss))

\* A leveling that keeps every node of a generation.
KeptNodesAll(h2n) == Flatten([j \in 1..Len(h2n) |-> h2n[j][2]])

\* lines 160-165
KeptNodes(h2n) == [j \in 1..Len(h2n) |-> Head(h2n[j][2])]

\* A loop that drops the duplicates instead of pushing them down.
PushedDownNodesDropped(h2n) == <<>>

PushedDownNodes(h2n) == Flatten([j \in 1..Len(h2n) |-> Tail(h2n[j][2])])

\* The while loop of lines 144-168, from (generations, new_generations).
RECURSIVE Leveling(_, _, _)
Leveling(gens, new_gens, r2h) ==
    IF Len(gens) = 0 THEN new_gens
    ELSE LET root_node_generation == Head(gens)
             all_hashes == [k \in 1..Len(root_node_generation) |-> HashGet(r2h, root_node_generation[k])]
             hash_generation == SelectSeq(all_hashes, LAMBDA y : y # None)
             h2n == HashToNodes(hash_generation, root_node_generation, Len(hash_generation))
             kept_nodes == KeptNodes(h2n)
             pushed_down_nodes == PushedDownNodes(h2n)
         IN Leveling(IF Len(pushed_down_nodes) > 0
                        THEN <<pushed_down_nodes>> \o Tail(gens)
                        ELSE Tail(gens),
                     Append(new_gens, kept_nodes), r2h)

(***************************************************************************)
(* ISO.find, capacity fitting (lines 208-248).                             *)
(***************************************************************************)
\* item[1] of two entries, compared as Python compares lists.
KeyGreater(a, b) ==
    \/ a[1] > b[1]
    \/ a[1] = b[1] /\ a[2] > b[2]
    \/ a[1] = b[1] /\ a[2] = b[2] /\ a[3] > b[3]

\* sorted(..., key=lambda item: item[1], reverse=True): descending and stable.
RECURSIVE SortedStats(_)
SortedStats(items) ==
    IF items = <<>> THEN <<>>
    ELSE LET rest == SortedStats(SubSeq(items, 1, Len(items) - 1))
             x == items[Len(items)]
             before == {j \in 1..Len(rest) : ~KeyGreater(x[2], rest[j][2])}
             p == Cardinality(before)
         IN SubSeq(rest, 1, p) \o <<x>> \o SubSeq(rest, p + 1, Len(rest))

SortedKeys(stats) ==
    LET sorted == SortedStats(stats) IN [k \in 1..Len(sorted) |-> sorted[k][1]]

SortedValues(stats) ==
    LET sorted == SortedStats(stats) IN [k \in 1..Len(sorted) |-> sorted[k][2]]

Rows(values) == [k \in 1..Len(values) |-> values[k][2]]

Columns(values) == [k \in 1..Len(values) |-> values[k][3]]

\* A footprint summed over the patterns that are not fixed.
FixedRowsRemaining(values, m) == SumSeq(Rows(PySliceFrom(values, m)))

FixedRows(values, m) == SumSeq(Rows(PySliceTo(values, m)))

FixedColumns(values, m) == SumSeq(Columns(PySliceTo(values, m)))

\* A fit that leaves the resident variable pattern out of the row count.
LargestVariableRowIgnored(values, m) == 0

LargestVariableRow(values, m) ==
    IF m = Len(values) THEN 0 ELSE MaxSeq(Rows(PySliceFrom(values, m)))

LargestVariableColumn(values, m) ==
    IF m = Len(values) THEN 0 ELSE MaxSeq(Columns(PySliceFrom(values, m)))

\* The test of lines 228 and 247.
ExceedsBudget(values, budget, m) ==
    \/ FixedRows(values, m) + LargestVariableRow(values, m) > budget
    \/ FixedColumns(values, m) + LargestVariableColumn(values, m) > budget

\* The else branch of line 231: prefix length m passes both tests of the loop
\* (lines 218 and 228).
Feasible(values, budget, m) ==
    /\ ~(FixedRows(values, m) > budget \/ FixedColumns(values, m) > budget)
    /\ ~ExceedsBudget(values, budget, m)

\* A search that probes the fixed footprint only, without the resident
\* variable pattern (lines 222-230 left out).
RECURSIVE BinarySearchFixedOnly(_, _, _, _, _)
BinarySearchFixedOnly(values, budget, low, high, m) ==
    IF ~(low <= high) THEN m
    ELSE IF FixedRows(values, m) > budget \/ FixedColumns(values, m) > budget
         THEN BinarySearchFixedOnly(values, budget, low, m - 1, (low + (m - 1)) \div 2)
         ELSE BinarySearchFixedOnly(values, budget, m + 1, high, ((m + 1) + high) \div 2)

\* The while loop of lines 215-233; its value is the final mid.
RECURSIVE BinarySearch(_, _, _, _, _)
BinarySearch(values, budget, low, high, m) ==
    IF ~(low <= high) THEN m
    ELSE IF FixedRows(values, m) > budget \/ FixedColumns(values, m) > budget
         THEN BinarySearch(values, budget, low, m - 1, (low + (m - 1)) \div 2)
         ELSE IF ExceedsBudget(values, budget, m)
              THEN BinarySearch(values, budget, low, m - 1, (low + (m - 1)) \div 2)
              ELSE BinarySearch(values, budget, m + 1, high, ((m + 1) + high) \div 2)

FindMid(values, budget) ==
    BinarySearch(values, budget, 0, Len(values), (0 + Len(values)) \div 2)

(***************************************************************************)
(* ISO.find as a state machine.                                            *)
(***************************************************************************)
\* (nodes, edges) of the diagrams of a topology: a single terminal, and a
\* root with one edge to a terminal.
Shapes == {<<1, 0>>, <<2, 1>>}

\* The generations of a DAG on the nodes 1..n: every node in one generation,
\* no generation empty.
GenerationsOf(genOf, n) ==
    LET k == IF n = 0 THEN 0 ELSE CHOOSE m \in 1..n : \A x \in 1..n : genOf[x] <= m /\ \E y \in 1..n : genOf[y] = m
    IN [g \in 1..k |-> Ascending({x \in 1..n : genOf[x] = g})]

IsoInit ==
    /\ \E n \in 0..Cardinality(RootNodes) :
      \E genOf \in [1..n -> 1..n], hashIdx \in [1..n -> 0..Len(Hashes)], shape \in [1..Len(Hashes) -> Shapes] :
        \* every generation 1..k is inhabited
        /\ \A x \in 1..n : genOf[x] = 1 \/ \E y \in 1..n : genOf[y] = genOf[x] - 1
        \* digests are only compared for equality: they are numbered by first use
        /\ \A x \in 1..n : hashIdx[x] > 1 => \E y \in 1..(x - 1) : hashIdx[y] = hashIdx[x] - 1
        /\ \A h \in 1..Len(Hashes) : (\A x \in 1..n : hashIdx[x] # h) => shape[h] = <<1, 0>>
        /\ topology = GenerationsOf(genOf, n)
        /\ bdds = [x \in {y \in 1..n : hashIdx[y] # 0} |->
                     [hash |-> Hashes[hashIdx[x]],
                      nodes |-> shape[hashIdx[x]][1],
                      edges |-> shape[hashIdx[x]][2]]]
    /\ D \in {NoBudget} \cup (1..MaxD)
    /\ pc = "Idle"
    /\ root_node_to_hash = <<>>
    /\ bdd_pattern_stats = <<>>
    /\ generations = <<>>
    /\ new_generations = <<>>
    /\ mid = 0
    /\ cycles = <<>>
    /\ fixed_bdds = {}
    /\ variable_bdd = None
    /\ gi = 0
    /\ NoCrossbar
    /\ TopoOff
    /\ MapOff
    /\ IoOff

\* line 66
Find ==
    /\ pc = "Idle"
    /\ pc' = "Discovering"
    /\ UNCHANGED nonIsoVars
    /\ UNCHANGED <<topology, bdds, new_generations, D, root_node_to_hash, bdd_pattern_stats,
                   generations, mid, cycles, fixed_bdds, variable_bdd, gi>>

\* lines 67-140
Discover ==
    /\ pc = "Discovering"
    /\ root_node_to_hash' = RootNodeToHash(bdds)
    /\ bdd_pattern_stats' = PatternStats(bdds)
    /\ generations' = RemovePrimaryInputs(topology, bdds)
    /\ pc' = "Leveling"
    /\ UNCHANGED nonIsoVars
    /\ UNCHANGED <<topology, bdds, new_generations, D, mid, cycles, fixed_bdds, variable_bdd, gi>>

\* lines 142-204
Level ==
    /\ pc = "Leveling"
    /\ new_generations' = Leveling(generations, <<>>, root_node_to_hash)
    /\ generations' = new_generations'
    /\ pc' = IF D # NoBudget THEN "Fitting" ELSE "Done"
    /\ UNCHANGED nonIsoVars
    /\ UNCHANGED <<topology, bdds, D, root_node_to_hash, bdd_pattern_stats,
                   mid, cycles, fixed_bdds, variable_bdd, gi>>

\* lines 204-248
Fit ==
    /\ pc = "Fitting"
    /\ LET sorted_bdd_pattern_values == SortedValues(bdd_pattern_stats)
       IN /\ mid' = FindMid(sorted_bdd_pattern_values, D)
          /\ pc' = IF ExceedsBudget(sorted_bdd_pattern_values, D, mid') THEN "Failed" ELSE "Emitting"
    /\ UNCHANGED nonIsoVars
    /\ UNCHANGED <<topology, bdds, new_generations, D, root_node_to_hash, bdd_pattern_stats,
                   generations, cycles, fixed_bdds, variable_bdd, gi>>

\* line 251
ReversedGenerations(gens) == IF gens = <<>> THEN <<>> ELSE Tail(Reverse(gens))

\* lines 250-263: the initial cycle loads the fixed patterns.
EmitFixed ==
    /\ pc = "Emitting"
    /\ gi = 0
    /\ LET keys == SortedKeys(bdd_pattern_stats)
           cycle == [k \in 1..Max2(mid, 0) |-> LOAD(keys[k])]
       IN /\ fixed_bdds' = {keys[k] : k \in 1..Max2(mid, 0)}
          /\ cycles' = IF Len(cycle) > 0 THEN <<cycle>> ELSE <<>>
    /\ variable_bdd' = None
    /\ gi' = 1
    /\ UNCHANGED nonIsoVars
    /\ UNCHANGED <<topology, bdds, new_generations, D, pc, root_node_to_hash, bdd_pattern_stats,
                   generations, mid>>

\* lines 269-275: the patterns of the generation that are resident.
EvaluatedBddsAnyLoaded(all_bdds, fixed, variable) ==
    {h \in all_bdds : h \in fixed \/ variable # None}

EvaluatedBdds(all_bdds, fixed, variable) ==
    {h \in all_bdds : h \in fixed \/ h = variable}

\* One cycle [LOAD, EVAL] per missed pattern.
RECURSIVE MissedCyclesMerged(_)
MissedCyclesMerged(order) ==
    IF order = <<>> THEN <<>>
    ELSE <<<<LOAD(Head(order)), EVAL(Head(order))>>>> \o MissedCyclesMerged(Tail(order))

\* The cycles of the missed patterns (lines 285-290), visited in the given order.
RECURSIVE MissedCycles(_)
MissedCycles(order) ==
    IF order = <<>> THEN <<>>
    ELSE <<<<LOAD(Head(order))>>, <<EVAL(Head(order))>>>> \o MissedCycles(Tail(order))

\* lines 265-290: one pass of the emission loop.  The generation and the sets
\* of hashes are Python sets, iterated in an order the code does not fix.
EmitGeneration ==
    /\ pc = "Emitting"
    /\ gi >= 1
    /\ gi <= Len(ReversedGenerations(generations))
    /\ LET generation == Range(ReversedGenerations(generations)[gi])
           all_bdds == {HashGet(root_node_to_hash, r) : r \in generation}
           evaluated_bdds == EvaluatedBdds(all_bdds, fixed_bdds, variable_bdd)
           missed_bdds == all_bdds \ evaluated_bdds
       IN \E evalOrder \in Orders(evaluated_bdds), missOrder \in Orders(missed_bdds) :
            /\ cycles' = cycles
                           \o (IF Len(evalOrder) > 0
                                 THEN <<[k \in 1..Len(evalOrder) |-> EVAL(evalOrder[k])]>>
                                 ELSE <<>>)
                           \o MissedCycles(missOrder)
            /\ variable_bdd' = IF Len(missOrder) > 0 THEN missOrder[Len(missOrder)] ELSE variable_bdd
    /\ gi' = gi + 1
    /\ UNCHANGED nonIsoVars
    /\ UNCHANGED <<topology, bdds, new_generations, D, pc, root_node_to_hash, bdd_pattern_stats,
                   generations, mid, fixed_bdds>>

\* lines 292-302
Finish ==
    /\ pc = "Emitting"
    /\ gi >= 1
    /\ gi > Len(ReversedGenerations(generations))
    /\ pc' = "Done"
    /\ UNCHANGED nonIsoVars
    /\ UNCHANGED <<topology, bdds, new_generations, D, root_node_to_hash, bdd_pattern_stats,
                   generations, mid, cycles, fixed_bdds, variable_bdd, gi>>

\* lines 265-290 for the generations rev, from (fixed, variable): every cycle
\* list the loop can append, one per order in which the sets are iterated.
RECURSIVE Schedules(_, _, _, _)
Schedules(rev, fixed, variable, r2h) ==
    IF rev = <<>> THEN {<<>>}
    ELSE LET generation == Range(Head(rev))
             all_bdds == {HashGet(r2h, r) : r \in generation}
             evaluated_bdds == EvaluatedBdds(all_bdds, fixed, variable)
             missed_bdds == all_bdds \ evaluated_bdds
             emitted(evalOrder, missOrder) ==
                 (IF Len(evalOrder) > 0
                    THEN <<[k \in 1..Len(evalOrder) |-> EVAL(evalOrder[k])]>>
                    ELSE <<>>)
                 \o MissedCycles(missOrder)
             resident(missOrder) ==
                 IF Len(missOrder) > 0 THEN missOrder[Len(missOrder)] ELSE variable
         IN UNION {{emitted(o[1], o[2]) \o rest :
                       rest \in Schedules(Tail(rev), fixed, resident(o[2]), r2h)} :
                   o \in Orders(evaluated_bdds) \X Orders(missed_bdds)}

\* lines 204-290 with the budget self.D = budget, after leveling: the cycle
\* lists find can emit; none when the fit raises.
SchedulesFor(budget) ==
    LET keys == SortedKeys(bdd_pattern_stats)
        values == SortedValues(bdd_pattern_stats)
        m == FindMid(values, budget)
        cycle == [k \in 1..Max2(m, 0) |-> LOAD(keys[k])]
    IN IF ExceedsBudget(values, budget, m) THEN {}
       ELSE {(IF Len(cycle) > 0 THEN <<cycle>> ELSE <<>>) \o s :
                s \in Schedules(ReversedGenerations(generations),
                                {keys[k] : k \in 1..Max2(m, 0)}, None, root_node_to_hash)}

IsoNext == Find \/ Discover \/ Level \/ Fit \/ EmitFixed \/ EmitGeneration \/ Finish

Init == IsoInit

Next == IsoNext

\* ISO.find on a topology.
Spec == Init /\ [][Next]_vars

(***************************************************************************)
(* The leveling worklist of ISO.find (lines 143-169), one pass of the      *)
(* while loop at a time.                                                   *)
(***************************************************************************)
\* The state when the loop is entered: the generations without the primary
\* inputs, some of them empty.
LevelInit ==
    /\ \E n \in 0..Cardinality(RootNodes) :
      \E genOf \in [1..n -> 1..n], hashIdx \in [1..n -> 0..Len(Hashes)] :
        /\ \A x \in 1..n : genOf[x] = 1 \/ \E y \in 1..n : genOf[y] = genOf[x] - 1
        /\ \A x \in 1..n : hashIdx[x] > 1 => \E y \in 1..(x - 1) : hashIdx[y] = hashIdx[x] - 1
        /\ topology = GenerationsOf(genOf, n)
        /\ bdds = [x \in {y \in 1..n : hashIdx[y] # 0} |->
                     [hash |-> Hashes[hashIdx[x]], nodes |-> 1, edges |-> 0]]
    /\ D = NoBudget
    /\ pc = "Leveling"
    /\ root_node_to_hash = RootNodeToHash(bdds)
    /\ bdd_pattern_stats = PatternStats(bdds)
    /\ generations = RemovePrimaryInputs(topology, bdds)
    /\ new_generations = <<>>
    /\ mid = 0
    /\ cycles = <<>>
    /\ fixed_bdds = {}
    /\ variable_bdd = None
    /\ gi = 0
    /\ NoCrossbar
    /\ TopoOff
    /\ MapOff
    /\ IoOff

\* lines 144-168: one pass of the while loop.
LevelPass ==
    /\ pc = "Leveling"
    /\ Len(generations) # 0
    /\ LET root_node_generation == Head(generations)
           all_hashes == [k \in 1..Len(root_node_generation) |->
                            HashGet(root_node_to_hash, root_node_generation[k])]
           hash_generation == SelectSeq(all_hashes, LAMBDA y : y # None)
           h2n == HashToNodes(hash_generation, root_node_generation, Len(hash_generation))
           kept_nodes == KeptNodes(h2n)
           pushed_down_nodes == PushedDownNodes(h2n)
       IN /\ new_generations' = Append(new_generations, kept_nodes)
          /\ generations' = IF Len(pushed_down_nodes) > 0
                            THEN <<pushed_down_nodes>> \o Tail(generations)
                            ELSE Tail(generations)
    /\ UNCHANGED nonIsoVars
    /\ UNCHANGED <<topology, bdds, D, pc, root_node_to_hash, bdd_pattern_stats,
                   mid, cycles, fixed_bdds, variable_bdd, gi>>

\* line 169: generations = new_generations
LevelEnd ==
    /\ pc = "Leveling"
    /\ Len(generations) = 0
    /\ generations' = new_generations
    /\ pc' = "Done"
    /\ UNCHANGED nonIsoVars
    /\ UNCHANGED <<topology, bdds, new_generations, D, root_node_to_hash, bdd_pattern_stats,
                   mid, cycles, fixed_bdds, variable_bdd, gi>>

LevelNext == LevelPass \/ LevelEnd

\* The worklist loop; a pass that can be taken is taken.
SpecLevel == LevelInit /\ [][LevelNext]_vars /\ WF_vars(LevelNext)

(***************************************************************************)
(* Capacity fitting on a pattern table drawn on its own: find has reached  *)
(* line 204 with these bdd_pattern_stats.                                  *)
(***************************************************************************)
FitHashes == <<"h1", "h2", "h3", "h4", "h5">>

StatsValues == {1, 2} \X (1..MaxSize) \X (0..(MaxSize - 1))

FitInit ==
    /\ \E n \in 0..MaxPatterns :
         \E values \in [1..n -> StatsValues] :
           bdd_pattern_stats = [k \in 1..n |-> <<FitHashes[k], values[k]>>]
    /\ D \in 1..MaxD
    /\ pc = "Fitting"
    /\ topology = <<>>
    /\ bdds = <<>>
    /\ root_node_to_hash = <<>>
    /\ generations = <<>>
    /\ new_generations = <<>>
    /\ mid = 0
    /\ cycles = <<>>
    /\ fixed_bdds = {}
    /\ variable_bdd = None
    /\ gi = 0
    /\ NoCrossbar
    /\ TopoOff
    /\ MapOff
    /\ IoOff

FitNext == Fit

SpecFit == FitInit /\ [][FitNext]_vars

(***************************************************************************)
(* Literals and memristors (core/expressions/BooleanExpression.py and      *)
(* core/hardware/Memristor.py).                                            *)
(***************************************************************************)
\* LITERAL(atom, positive); equality is by (atom, positive).
LITERAL(atom, positive) == [atom |-> atom, positive |-> positive]

\* TRUE(): always conducting.
LitTrue == LITERAL("True", TRUE)

\* FALSE(): never conducting.
LitFalse == LITERAL("False", FALSE)

\* Memristor(row, column, literal, layer): the cell is identified by its
\* position in the matrix; stuck_at_fault takes its default.
Memristor(literal) == [literal |-> literal, stuck_at_fault |-> FALSE]

\* The atoms of the literals of a drawn crossbar.
Atoms == {"a"}

Literals == {LitFalse, LitTrue} \cup {LITERAL(atom, positive) : atom \in Atoms, positive \in BOOLEAN}

\* An instance binds some of the atoms.
Instances == UNION {[S -> BOOLEAN] : S \in SUBSET Atoms}

(***************************************************************************)
(* Crossbar (core/hardware/Crossbar.py).                                   *)
(***************************************************************************)
\* An empty dict of rails.
EmptyDict == [name \in {} |-> <<0, 0>>]

\* The positions <<layer, row, column>> of self.matrix[layer][row][column].
Cells(rows, columns, layers) == (0..(layers - 1)) \X (0..(rows - 1)) \X (0..(columns - 1))

\* Crossbar.__init__: every memristor holds FALSE(), no rails.
Crossbar(kind, rows, columns, layers) ==
    [kind |-> kind, rows |-> rows, columns |-> columns, layers |-> layers,
     matrix |-> [k \in Cells(rows, columns, layers) |-> Memristor(LitFalse)],
     input_nanowires |-> EmptyDict, output_nanowires |-> EmptyDict,
     selectorlines |-> <<>>]

\* self.matrix[layer][row][column] exists (the indices are not negative).
InMatrix(xb, row, column, layer) == <<layer, row, column>> \in DOMAIN xb.matrix

\* set_memristor(row, column, literal, layer, stuck_at_fault): a new
\* Memristor(row, column, literal, layer) replaces the cell; stuck_at_fault is
\* not passed on.
set_memristor(xb, row, column, literal, layer, stuck_at_fault) ==
    [xb EXCEPT !.matrix[<<layer, row, column>>] = Memristor(literal)]

\* The nodes "L{layer}_{index}" of graph(): the nanowires of the layers
\* 0..layers, rows on the even layers and columns on the odd ones.
GraphNodes(xb) ==
    {<<k[1], IF k[1] % 2 = 0 THEN k[2] ELSE k[3]>> : k \in DOMAIN xb.matrix}
      \cup {<<k[1] + 1, IF k[1] % 2 = 0 THEN k[3] ELSE k[2]>> : k \in DOMAIN xb.matrix}

\* graph(): one edge per memristor, with the atom and the polarity of its
\* literal.
graph(xb) ==
    {[u |-> <<k[1], IF k[1] % 2 = 0 THEN k[2] ELSE k[3]>>,
      v |-> <<k[1] + 1, IF k[1] % 2 = 0 THEN k[3] ELSE k[2]>>,
      atom |-> xb.matrix[k].literal.atom,
      positive |-> xb.matrix[k].literal.positive] : k \in DOMAIN xb.matrix}

\* graph.remove_edges_from(true_edges): the edges that stay.
ConductingEdges(edges) == {e \in edges : e.atom = "True" /\ e.positive}

\* The nodes reachable from the set seen.
RECURSIVE Reachable(_, _)
Reachable(seen, edges) ==
    LET next == seen \cup {e.v : e \in {d \in edges : d.u \in seen}}
                     \cup {e.u : e \in {d \in edges : d.v \in seen}}
    IN IF next = seen THEN seen ELSE Reachable(next, edges)

\* networkx has_path(graph, source, sink), both nodes in the graph.
has_path(edges, source, sink) == sink \in Reachable({source}, edges)

\* The loop of eval over the output rails (lines 685-690 and 1026-1033).  An
\* entry of a rail map is the pair <<layer, index>>; an entry that is a bare
\* int n is written <<n>>, and unpacking it raises.
Evaluation(instantiated, output_nanowires, input_function) ==
    LET edges == ConductingEdges(graph(instantiated))
        nodes == GraphNodes(instantiated)
    IN IF DOMAIN output_nanowires = {} THEN [raised |-> None, value |-> [o \in {} |-> FALSE]]
       ELSE IF \E o \in DOMAIN output_nanowires : Len(output_nanowires[o]) # 2
            THEN [raised |-> "TypeError", value |-> [o \in {} |-> FALSE]]
       ELSE IF input_function \notin DOMAIN instantiated.input_nanowires
            THEN [raised |-> "KeyError", value |-> [o \in {} |-> FALSE]]
       ELSE IF \E o \in DOMAIN output_nanowires : output_nanowires[o] \notin nodes
            THEN [raised |-> "NodeNotFound", value |-> [o \in {} |-> FALSE]]
       ELSE IF instantiated.input_nanowires[input_function] \notin nodes
            THEN [raised |-> "NodeNotFound", value |-> [o \in {} |-> FALSE]]
       ELSE [raised |-> None,
             value |-> [o \in DOMAIN output_nanowires |->
                          has_path(edges, output_nanowires[o],
                                   instantiated.input_nanowires[input_function])]]

(***************************************************************************)
(* MemristorCrossbar.instantiate and eval (lines 647-692).                 *)
(***************************************************************************)
\* line 654
IsConstant(literal) == literal.atom = "True" \/ literal.atom = "False"

\* lines 655-665: the constant a literal is rewritten to.
Resolve(literal, instance) ==
    IF literal.positive = instance[literal.atom] THEN LITERAL("True", TRUE) ELSE LITERAL("False", FALSE)

\* The order of the three nested loops over the matrix.
CellBefore(j, k) ==
    \/ j[1] < k[1]
    \/ j[1] = k[1] /\ j[2] < k[2]
    \/ j[1] = k[1] /\ j[2] = k[2] /\ j[3] < k[3]

\* The cells whose rewriting raises: instance[variable_name] of an atom the
\* instance does not bind.
Unbound(xb, instance) ==
    {k \in DOMAIN xb.matrix :
       /\ ~IsConstant(xb.matrix[k].literal)
       /\ ~xb.matrix[k].stuck_at_fault
       /\ xb.matrix[k].literal.atom \notin DOMAIN instance}

\* An instantiate that reads instance.get(variable_name, False): an atom the
\* instance does not bind counts as false and nothing raises.
MemristorInstantiateDefaulting(xb, instance) ==
    LET value(k) == /\ xb.matrix[k].literal.atom \in DOMAIN instance
                    /\ instance[xb.matrix[k].literal.atom]
        after == [xb EXCEPT !.matrix = [k \in DOMAIN xb.matrix |->
                    IF ~IsConstant(xb.matrix[k].literal) /\ ~xb.matrix[k].stuck_at_fault
                    THEN Memristor(IF xb.matrix[k].literal.positive = value(k)
                                   THEN LitTrue ELSE LitFalse)
                    ELSE xb.matrix[k]]]
    IN [crossbar |-> after, raised |-> None, returned |-> after, returns_self |-> TRUE]

\* MemristorCrossbar.instantiate: the memristors of self are replaced in
\* place, up to the first one that raises, and self is returned.
MemristorInstantiate(xb, instance) ==
    LET unbound == Unbound(xb, instance)
        rewritten(k) == /\ ~IsConstant(xb.matrix[k].literal)
                        /\ ~xb.matrix[k].stuck_at_fault
                        /\ \A u \in unbound : CellBefore(k, u)
        after == [xb EXCEPT !.matrix = [k \in DOMAIN xb.matrix |->
                    IF rewritten(k) THEN Memristor(Resolve(xb.matrix[k].literal, instance))
                    ELSE xb.matrix[k]]]
    IN [crossbar |-> after,
        raised |-> IF unbound = {} THEN None ELSE "KeyError",
        returned |-> after,
        returns_self |-> unbound = {}]

\* lines 673-676: for every other input rail, in the order of the dict,
\* set_memristor(input_nanowire, c, FALSE(), layer=layer) for every column c.
RECURSIVE ForceOthers(_, _)
ForceOthers(xb, order) ==
    IF order = <<>> THEN [crossbar |-> xb, raised |-> None]
    ELSE LET layer == xb.input_nanowires[Head(order)][1]
             input_nanowire == xb.input_nanowires[Head(order)][2]
         IN IF xb.columns = 0 THEN ForceOthers(xb, Tail(order))
            ELSE IF ~InMatrix(xb, input_nanowire, 0, layer)
                 THEN [crossbar |-> xb, raised |-> "IndexError"]
            ELSE ForceOthers(
                   [xb EXCEPT !.matrix = [k \in DOMAIN xb.matrix |->
                      IF k[1] = layer /\ k[2] = input_nanowire
                      THEN set_memristor(xb, k[2], k[3], LitFalse, k[1], FALSE).matrix[k]
                      ELSE xb.matrix[k]]],
                   Tail(order))

\* An eval that evaluates the copy as it is, without instantiating it.
MemristorEvalInstantiateSkipped(xb, instance) ==
    [crossbar |-> xb, raised |-> None, returned |-> xb, returns_self |-> TRUE]

\* line 679: crossbar_copy.instantiate(instance)
MemristorEvalInstantiate(xb, instance) == MemristorInstantiate(xb, instance)

\* MemristorCrossbar.eval; order is the order in which the dict yields the
\* other input rails.
MemristorEval(xb, instance, input_function, order) ==
    LET forced == ForceOthers(xb, order)
        crossbar_copy == forced.crossbar
        crossbar_instance == MemristorEvalInstantiate(crossbar_copy, instance)
        evaluation == Evaluation(crossbar_instance.returned,
                                 crossbar_instance.returned.output_nanowires, input_function)
    IN IF forced.raised # None
       THEN [crossbar |-> forced.crossbar, raised |-> forced.raised,
             value |-> [o \in {} |-> FALSE]]
       ELSE IF crossbar_instance.raised # None
       THEN [crossbar |-> forced.crossbar, raised |-> crossbar_instance.raised,
             value |-> [o \in {} |-> FALSE]]
       ELSE [crossbar |-> forced.crossbar, raised |-> evaluation.raised,
             value |-> evaluation.value]

(***************************************************************************)
(* SelectorCrossbar.instantiate and eval (lines 1000-1035).                *)
(***************************************************************************)
\* lines 1005-1016: the selectorline of column c (counted from 0) blocks it.
Blocks(literal, instance) ==
    IF literal = LITERAL("False", FALSE) THEN TRUE
    ELSE IF literal = LITERAL("True", TRUE) THEN FALSE
    ELSE \/ ~instance[literal.atom] /\ literal.positive
         \/ instance[literal.atom] /\ ~literal.positive

\* What the pass over column c raises: instance[literal.atom] of an unbound
\* atom, or set_memristor(r, c, ...) outside the matrix.
SelectorlineRaises(xb, c, instance) ==
    LET literal == xb.selectorlines[c + 1]
    IN IF literal # LITERAL("False", FALSE) /\ literal # LITERAL("True", TRUE)
          /\ literal.atom \notin DOMAIN instance
       THEN "KeyError"
       ELSE IF Blocks(literal, instance) /\ xb.rows > 0 /\ ~InMatrix(xb, 0, c, 0)
       THEN "IndexError"
       ELSE None

\* SelectorCrossbar.instantiate: a deep copy whose blocked columns are FALSE.
SelectorInstantiate(xb, instance) ==
    LET raising == {c \in 0..(Len(xb.selectorlines) - 1) : SelectorlineRaises(xb, c, instance) # None}
        first == CHOOSE c \in raising : \A d \in raising : c <= d
        crossbar_copy ==
          [xb EXCEPT !.matrix = [k \in DOMAIN xb.matrix |->
             IF k[1] = 0 /\ k[3] < Len(xb.selectorlines) /\ Blocks(xb.selectorlines[k[3] + 1], instance)
             THEN set_memristor(xb, k[2], k[3], LITERAL("False", FALSE), 0, FALSE).matrix[k]
             ELSE xb.matrix[k]]]
    IN IF raising = {}
       THEN [crossbar |-> xb, raised |-> None, returned |-> crossbar_copy, returns_self |-> FALSE]
       ELSE [crossbar |-> xb, raised |-> SelectorlineRaises(xb, first, instance),
             returned |-> xb, returns_self |-> FALSE]

\* SelectorCrossbar.eval
SelectorEval(xb, instance, input_function) ==
    LET crossbar_instance == SelectorInstantiate(xb, instance)
        evaluation == Evaluation(crossbar_instance.returned, xb.output_nanowires, input_function)
    IN IF crossbar_instance.raised # None
       THEN [crossbar |-> xb, raised |-> crossbar_instance.raised, value |-> [o \in {} |-> FALSE]]
       ELSE [crossbar |-> xb, raised |-> evaluation.raised, value |-> evaluation.value]

\* instantiate of the class of the crossbar.
instantiate(xb, instance) ==
    IF xb.kind = "MemristorCrossbar" THEN MemristorInstantiate(xb, instance)
    ELSE SelectorInstantiate(xb, instance)

\* eval of the class of the crossbar.
eval(xb, instance, input_function, order) ==
    IF xb.kind = "MemristorCrossbar" THEN MemristorEval(xb, instance, input_function, order)
    ELSE SelectorEval(xb, instance, input_function)

(***************************************************************************)
(* Crossbars under instantiate and eval.                                   *)
(***************************************************************************)
\* ISO.find is not running.
IsoOff ==
    /\ topology = <<>>
    /\ bdds = <<>>
    /\ D = NoBudget
    /\ pc = "Off"
    /\ root_node_to_hash = <<>>
    /\ bdd_pattern_stats = <<>>
    /\ generations = <<>>
    /\ new_generations = <<>>
    /\ mid = 0
    /\ cycles = <<>>
    /\ fixed_bdds = {}
    /\ variable_bdd = None
    /\ gi = 0

\* The names of the input rails and of the output rails of a drawn crossbar.
InputFunctions == {"f", "g"}
OutputFunctions == {"o"}

\* (rows, columns, layers) of the drawn crossbars.
XbarShapes ==
    {<<1, 1, 1>>, <<2, 1, 1>>, <<1, 2, 1>>, <<2, 2, 1>>, <<1, 1, 2>>, <<2, 1, 2>>, <<1, 2, 2>>}

\* The literals on the memristors of a drawn crossbar: every literal, and the
\* two constants only on the larger crossbars of two layers.
CellLiterals(s) == IF s[3] = 1 \/ s[1] * s[2] = 1 THEN Literals ELSE {LitFalse, LitTrue}

\* The nanowires <<layer, index>> of a crossbar.
Nanowires(rows, columns, layers) ==
    {p \in (0..layers) \X (0..(Max2(rows, columns) - 1)) :
       p[2] < (IF p[1] % 2 = 0 THEN rows ELSE columns)}

\* The dicts of rails that bind the first name, and maybe more names, to
\* nanowires.
Rails(first, names, nanowires) ==
    UNION {[S -> nanowires] : S \in {T \in SUBSET names : first \in T}}

\* A memristor crossbar as set_memristor, set_input_nanowire and
\* set_output_nanowire build it.
MemristorCrossbarOf(s, lits, ins, outs) ==
    [Crossbar("MemristorCrossbar", s[1], s[2], s[3]) EXCEPT
       !.matrix = [k \in Cells(s[1], s[2], s[3]) |-> Memristor(lits[k])],
       !.input_nanowires = ins, !.output_nanowires = outs]

\* A selector crossbar: one layer, a literal on the selectorline of every
\* column.
SelectorCrossbarOf(s, lits, sels, ins, outs) ==
    [Crossbar("SelectorCrossbar", s[1], s[2], 1) EXCEPT
       !.matrix = [k \in Cells(s[1], s[2], 1) |-> Memristor(lits[k])],
       !.selectorlines = sels,
       !.input_nanowires = ins, !.output_nanowires = outs]

\* The drawn memristor crossbars: the rails on any nanowire.
IsMemristorCrossbar(xb) ==
    \E s \in XbarShapes :
      \E lits \in [Cells(s[1], s[2], s[3]) -> CellLiterals(s)],
         ins \in Rails("f", InputFunctions, Nanowires(s[1], s[2], s[3])),
         outs \in Rails("o", OutputFunctions, Nanowires(s[1], s[2], s[3])) :
        xb = MemristorCrossbarOf(s, lits, ins, outs)

\* The drawn selector crossbars: constants on the memristors, the rails on
\* the rows.
IsSelectorCrossbar(xb) ==
    \E s \in {t \in XbarShapes : t[3] = 1} :
      \E lits \in [Cells(s[1], s[2], 1) -> {LitFalse, LitTrue}],
         sels \in [1..s[2] -> Literals],
         ins \in Rails("f", InputFunctions, {0} \X (0..(s[1] - 1))),
         outs \in Rails("o", OutputFunctions, {0} \X (0..(s[1] - 1))) :
        xb = SelectorCrossbarOf(s, lits, sels, ins, outs)

\* No call has been made on the crossbar.
NoCall(xb) ==
    [op |-> "none", instance |-> [a \in {} |-> FALSE], input_function |-> "",
     before |-> xb, raised |-> None, returned |-> xb, returns_self |-> FALSE,
     value |-> [o \in {} |-> FALSE]]

XbarInit ==
    /\ IsMemristorCrossbar(crossbar) \/ IsSelectorCrossbar(crossbar)
    /\ last = NoCall(crossbar)
    /\ IsoOff
    /\ TopoOff
    /\ MapOff
    /\ IoOff

\* crossbar.instantiate(instance), the first call on the crossbar
Instantiate ==
    \E instance \in Instances :
      LET outcome == instantiate(crossbar, instance)
      IN /\ last.op = "none"
         /\ crossbar' = outcome.crossbar
         /\ last' = [op |-> "instantiate", instance |-> instance, input_function |-> "",
                     before |-> crossbar, raised |-> outcome.raised,
                     returned |-> outcome.returned, returns_self |-> outcome.returns_self,
                     value |-> [o \in {} |-> FALSE]]
         /\ UNCHANGED nonXbarVars

\* crossbar.eval(instance, input_function), the first call on the crossbar
Eval ==
    \E instance \in Instances, input_function \in InputFunctions :
      \E order \in Orders(DOMAIN crossbar.input_nanowires \ {input_function}) :
        LET outcome == eval(crossbar, instance, input_function, order)
        IN /\ last.op = "none"
           /\ crossbar' = outcome.crossbar
           /\ last' = [op |-> "eval", instance |-> instance, input_function |-> input_function,
                       before |-> crossbar, raised |-> outcome.raised,
                       returned |-> outcome.crossbar, returns_self |-> FALSE,
                       value |-> outcome.value]
           /\ UNCHANGED nonXbarVars

XbarNext == Instantiate \/ Eval

\* A crossbar under its operations.
SpecXbar == XbarInit /\ [][XbarNext]_vars

(***************************************************************************)
(* The setters and the structural transforms of a crossbar (Crossbar.py,   *)
(* lines 106-110, 232-275 and 637-645).                                    *)
(***************************************************************************)
\* set_input_nanowire
set_input_nanowire(xb, input_function, nanowire, layer) ==
    [xb EXCEPT !.input_nanowires =
       [name \in DOMAIN xb.input_nanowires \cup {input_function} |->
          IF name = input_function THEN <<layer, nanowire>> ELSE xb.input_nanowires[name]]]

\* set_output_nanowire
set_output_nanowire(xb, output_function, nanowire, layer) ==
    [xb EXCEPT !.output_nanowires =
       [name \in DOMAIN xb.output_nanowires \cup {output_function} |->
          IF name = output_function THEN <<layer, nanowire>> ELSE xb.output_nanowires[name]]]

\* flip_vertical (Crossbar.py, lines 262-275): every row is reversed.
flip_vertical(xb) ==
    [xb EXCEPT !.matrix = [k \in DOMAIN xb.matrix |->
       Memristor(xb.matrix[<<k[1], k[2], xb.columns - 1 - k[3]>>].literal)]]

\* flip_horizontal(layer): self.matrix.reverse() reverses the list of layers,
\* the memristors of the layer are set again, and every output rail is bound
\* to the int self.rows - 1 - row; unpacking an entry that is an int raises.
flip_horizontal(xb, layer) ==
    LET reversed == [k \in DOMAIN xb.matrix |-> xb.matrix[<<xb.layers - 1 - k[1], k[2], k[3]>>]]
        reset == [k \in DOMAIN xb.matrix |->
                    IF k[1] = layer THEN Memristor(reversed[k].literal) ELSE reversed[k]]
        flipped == [xb EXCEPT !.matrix = reset]
    IN IF \E name \in DOMAIN xb.output_nanowires : Len(xb.output_nanowires[name]) # 2
       THEN [crossbar |-> flipped, raised |-> "TypeError"]
       ELSE [crossbar |-> [flipped EXCEPT !.output_nanowires =
                             [name \in DOMAIN xb.output_nanowires |->
                                <<xb.rows - 1 - xb.output_nanowires[name][2]>>]],
             raised |-> None]

\* transpose: a new crossbar of one layer with the cells of layer 0 mirrored
\* in the diagonal and the rail maps of self.
transpose(xb) ==
    [Crossbar("MemristorCrossbar", xb.columns, xb.rows, 1) EXCEPT
       !.matrix = [k \in Cells(xb.columns, xb.rows, 1) |->
                     Memristor(xb.matrix[<<0, k[3], k[2]>>].literal)],
       !.input_nanowires = xb.input_nanowires,
       !.output_nanowires = xb.output_nanowires]

\* (rows, columns, layers) of the crossbars the calls are made on.
OpsShapes == {<<2, 1, 1>>, <<1, 1, 2>>}

\* The call that led to the crossbar, and the receiver before it.
Called(op, before, raised) == [op |-> op, before |-> before, raised |-> raised]

OpsInit ==
    /\ \E s \in OpsShapes : crossbar = Crossbar("MemristorCrossbar", s[1], s[2], s[3])
    /\ last = Called("init", crossbar, None)
    /\ IsoOff
    /\ TopoOff
    /\ MapOff
    /\ IoOff

\* crossbar.set_memristor(row, column, literal, layer) inside the matrix
OpSetMemristor ==
    \E k \in DOMAIN crossbar.matrix, literal \in Literals :
      /\ last.raised = None
      /\ crossbar' = set_memristor(crossbar, k[2], k[3], literal, k[1], FALSE)
      /\ last' = Called("set_memristor", crossbar, None)
      /\ UNCHANGED nonXbarVars

\* crossbar.set_input_nanowire(input_function, nanowire, layer) on a nanowire
\* of the crossbar
OpSetInputNanowire ==
    \E input_function \in InputFunctions,
       p \in Nanowires(crossbar.rows, crossbar.columns, crossbar.layers) :
      /\ last.raised = None
      /\ crossbar' = set_input_nanowire(crossbar, input_function, p[2], p[1])
      /\ last' = Called("set_input_nanowire", crossbar, None)
      /\ UNCHANGED nonXbarVars

\* crossbar.set_output_nanowire(output_function, nanowire, layer) on a
\* nanowire of the crossbar
OpSetOutputNanowire ==
    \E output_function \in OutputFunctions,
       p \in Nanowires(crossbar.rows, crossbar.columns, crossbar.layers) :
      /\ last.raised = None
      /\ crossbar' = set_output_nanowire(crossbar, output_function, p[2], p[1])
      /\ last' = Called("set_output_nanowire", crossbar, None)
      /\ UNCHANGED nonXbarVars

\* crossbar.flip_horizontal()
OpFlipHorizontal ==
    LET outcome == flip_horizontal(crossbar, 0)
    IN /\ last.raised = None
       /\ crossbar' = outcome.crossbar
       /\ last' = Called("flip_horizontal", crossbar, outcome.raised)
       /\ UNCHANGED nonXbarVars

\* crossbar.flip_vertical()
OpFlipVertical ==
    /\ last.raised = None
    /\ crossbar' = flip_vertical(crossbar)
    /\ last' = Called("flip_vertical", crossbar, None)
    /\ UNCHANGED nonXbarVars

\* crossbar = crossbar.transpose()
OpTranspose ==
    /\ last.raised = None
    /\ crossbar' = transpose(crossbar)
    /\ last' = Called("transpose", crossbar, None)
    /\ UNCHANGED nonXbarVars

OpsNext ==
    \/ OpSetMemristor
    \/ OpSetInputNanowire
    \/ OpSetOutputNanowire
    \/ OpFlipHorizontal
    \/ OpFlipVertical
    \/ OpTranspose

\* A crossbar under its setters and its transforms.
SpecOps == OpsInit /\ [][OpsNext]_vars

(***************************************************************************)
(* set_memristor with its stuck_at_fault argument, followed by             *)
(* instantiate.                                                            *)
(***************************************************************************)
\* The call that led to the crossbar: the cell and the flag of the last
\* set_memristor, and the receiver of instantiate before the call.
StuckCall(op, cell, stuck_at_fault, before, raised) ==
    [op |-> op, cell |-> cell, stuck_at_fault |-> stuck_at_fault,
     before |-> before, raised |-> raised]

StuckInit ==
    /\ \E s \in OpsShapes : crossbar = Crossbar("MemristorCrossbar", s[1], s[2], s[3])
    /\ last = StuckCall("init", <<0, 0, 0>>, FALSE, crossbar, None)
    /\ IsoOff
    /\ TopoOff
    /\ MapOff
    /\ IoOff

\* crossbar.set_memristor(row, column, literal, layer, stuck_at_fault)
SetMemristor ==
    \E k \in DOMAIN crossbar.matrix, literal \in Literals, stuck_at_fault \in BOOLEAN :
      /\ last.op # "instantiate"
      /\ crossbar' = set_memristor(crossbar, k[2], k[3], literal, k[1], stuck_at_fault)
      /\ last' = StuckCall("set_memristor", k, stuck_at_fault, crossbar', None)
      /\ UNCHANGED nonXbarVars

\* crossbar.instantiate(instance) after the set_memristor
InstantiateSet ==
    \E instance \in Instances :
      LET outcome == instantiate(crossbar, instance)
      IN /\ last.op = "set_memristor"
         /\ crossbar' = outcome.crossbar
         /\ last' = StuckCall("instantiate", last.cell, last.stuck_at_fault, crossbar,
                              outcome.raised)
         /\ UNCHANGED nonXbarVars

StuckNext == SetMemristor \/ InstantiateSet

\* A crossbar whose cells are set, with or without the stuck-at-fault flag,
\* and then instantiated.
SpecStuck == StuckInit /\ [][StuckNext]_vars

(***************************************************************************)
(* Topology.eval (core/hardware/Topology.py, lines 245-262).               *)
(***************************************************************************)
\* The most crossbars of a drawn topology.
MaxTopoNodes == 2

\* The primary input function, an intermediate signal and an output.
PrimaryInput == "1"
Signals == {"w", "o"}

\* The crossbars of a drawn topology: three rows and one column; row 0 is
\* the input rail "1", row 1 the input rail "w", row 2 the output rail.
TopoCrossbar(literal, ins, out) ==
    [Crossbar("MemristorCrossbar", 3, 1, 1) EXCEPT
       !.matrix = [k \in Cells(3, 1, 1) |->
                     IF k[2] = 2 THEN Memristor(LitTrue) ELSE Memristor(literal)],
       !.input_nanowires = [name \in ins |-> IF name = PrimaryInput THEN <<0, 0>> ELSE <<0, 1>>],
       !.output_nanowires = [name \in {out} |-> <<0, 2>>]]

TopoCrossbars ==
    {TopoCrossbar(literal, ins, out) :
       literal \in {LitTrue, LitFalse, LITERAL("a", TRUE)},
       ins \in (SUBSET {PrimaryInput, "w"}) \ {{}},
       out \in Signals}

\* The instances: the atom is bound, the name of the primary input may be.
TopoInstances ==
    UNION {[S -> BOOLEAN] : S \in {T \in SUBSET (Atoms \cup {PrimaryInput}) : Atoms \subseteq T}}

\* evaluations.get(key): the key is bound to a true value.
Get(dict, key) == key \in DOMAIN dict /\ dict[key]

\* dict.update(other)
UpdateDict(dict, other) ==
    [key \in DOMAIN dict \cup DOMAIN other |->
       IF key \in DOMAIN other THEN other[key] ELSE dict[key]]

\* lines 254-260: a value is taken over when the key is new or bound to a
\* false value.
Merge(dict, evaluation) ==
    [key \in DOMAIN dict \cup DOMAIN evaluation |->
       IF key \in DOMAIN dict
       THEN IF key \in DOMAIN evaluation /\ ~dict[key] THEN evaluation[key] ELSE dict[key]
       ELSE evaluation[key]]

\* list.append for every element that is new.
RECURSIVE Distinct(_)
Distinct(s) ==
    IF s = <<>> THEN <<>>
    ELSE LET rest == Distinct(SubSeq(s, 1, Len(s) - 1))
         IN IF s[Len(s)] \in Range(rest) THEN rest ELSE Append(rest, s[Len(s)])

\* G.neighbors(u) of a multigraph: the successors in the order of their
\* first edge.
Neighbors(edges, u) ==
    LET out == SelectSeq(edges, LAMBDA e : e[1] = u)
    IN Distinct([k \in 1..Len(out) |-> out[k][2]])

\* networkx topological_generations, the pass over one generation: the
\* in-degree of every child drops by the number of edges from the node, and a
\* child that reaches zero joins the next generation.
RECURSIVE Relax(_, _, _, _)
Relax(generation, children, acc, edges) ==
    IF generation = <<>> THEN acc
    ELSE IF children = <<>>
         THEN IF Len(generation) = 1 THEN acc
              ELSE Relax(Tail(generation), Neighbors(edges, generation[2]), acc, edges)
    ELSE LET node == Head(generation)
             child == Head(children)
             d == acc.indegree[child]
                    - Cardinality({k \in DOMAIN edges : edges[k] = <<node, child>>})
         IN Relax(generation, Tail(children),
                  [indegree |-> [acc.indegree EXCEPT ![child] = d],
                   zero_indegree |-> IF d = 0 THEN Append(acc.zero_indegree, child)
                                     ELSE acc.zero_indegree],
                  edges)

\* The nodes topological_sort yields, generation after generation, until no
\* node of in-degree zero is left.
RECURSIVE Yielded(_, _, _)
Yielded(this_generation, indegree, edges) ==
    IF this_generation = <<>> THEN <<>>
    ELSE LET acc == Relax(this_generation, Neighbors(edges, Head(this_generation)),
                          [indegree |-> indegree, zero_indegree |-> <<>>], edges)
         IN this_generation \o Yielded(acc.zero_indegree, acc.indegree, edges)

\* list(self.graph.nodes): every node in the order it was added, whatever the
\* edges.
nodes_as_added(n, edges) == [v \in 1..n |-> v]

\* topological_sort(self.graph) on the nodes 1..n: the positions it yields
\* before it ends or raises.
topological_sort(n, edges) ==
    LET indegree == [v \in 1..n |-> Cardinality({k \in DOMAIN edges : edges[k][2] = v})]
    IN Yielded(SelectSeq([v \in 1..n |-> v], LAMBDA v : indegree[v] = 0), indegree, edges)

\* The generator raises NetworkXUnfeasible once it has yielded these nodes:
\* nodes of positive in-degree are left.
Unfeasible(n, edges) == Len(topological_sort(n, edges)) < n

\* A chain of crossbars: every crossbar feeds the next one.
TopoInit ==
    /\ \E n \in 1..MaxTopoNodes : topo_nodes \in [1..n -> TopoCrossbars]
    /\ topo_edges = [k \in 1..(Len(topo_nodes) - 1) |-> <<k, k + 1>>]
    /\ topo_instance \in TopoInstances
    /\ topo_input_function = PrimaryInput
    /\ evaluations = <<>>
    /\ tpc = "Call"
    /\ node_index = 0
    /\ pending = <<>>
    /\ IsoOff
    /\ NoCrossbar
    /\ MapOff
    /\ IoOff

\* line 246: evaluations = {input_function: True}
Seed ==
    /\ tpc = "Call"
    /\ evaluations' = [key \in {topo_input_function} |-> TRUE]
    /\ tpc' = "Seeded"
    /\ UNCHANGED <<topo_nodes, topo_edges, topo_instance, topo_input_function, node_index, pending>>
    /\ UNCHANGED nonTopoVars

\* line 247: evaluations.update(instance)
Update ==
    /\ tpc = "Seeded"
    /\ evaluations' = UpdateDict(evaluations, topo_instance)
    /\ tpc' = "Loop"
    /\ UNCHANGED <<topo_nodes, topo_edges, topo_instance, topo_input_function, node_index, pending>>
    /\ UNCHANGED nonTopoVars

\* lines 250-251: the next node; its input rails are visited in the order of
\* its dict.
VisitNode ==
    /\ tpc = "Loop"
    /\ pending = <<>>
    /\ node_index < Len(topological_sort(Len(topo_nodes), topo_edges))
    /\ node_index' = node_index + 1
    /\ pending' \in Orders(DOMAIN topo_nodes[topological_sort(Len(topo_nodes), topo_edges)[node_index + 1]].input_nanowires)
    /\ UNCHANGED <<topo_nodes, topo_edges, topo_instance, topo_input_function, evaluations, tpc>>
    /\ UNCHANGED nonTopoVars

\* lines 251-260: one input rail of the node.
EvalInput ==
    /\ tpc = "Loop"
    /\ pending # <<>>
    /\ LET position == topological_sort(Len(topo_nodes), topo_edges)[node_index]
           node == topo_nodes[position]
           name == Head(pending)
       IN IF Get(evaluations, name)
          THEN \E order \in Orders(DOMAIN node.input_nanowires \ {name}) :
                 LET outcome == eval(node, evaluations, name, order)
                 IN /\ topo_nodes' = [topo_nodes EXCEPT ![position] = outcome.crossbar]
                    /\ evaluations' = IF outcome.raised = None
                                      THEN Merge(evaluations, outcome.value)
                                      ELSE evaluations
                    /\ tpc' = IF outcome.raised = None THEN "Loop" ELSE "Raised"
          ELSE UNCHANGED <<topo_nodes, evaluations, tpc>>
    /\ pending' = Tail(pending)
    /\ UNCHANGED <<topo_edges, topo_instance, topo_input_function, node_index>>
    /\ UNCHANGED nonTopoVars

\* line 262: return evaluations
Return ==
    /\ tpc = "Loop"
    /\ pending = <<>>
    /\ node_index = Len(topological_sort(Len(topo_nodes), topo_edges))
    /\ ~Unfeasible(Len(topo_nodes), topo_edges)
    /\ tpc' = "Returned"
    /\ UNCHANGED <<topo_nodes, topo_edges, topo_instance, topo_input_function, evaluations, node_index, pending>>
    /\ UNCHANGED nonTopoVars

TopoNext == Seed \/ Update \/ VisitNode \/ EvalInput \/ Return

\* Topology.eval on a topology.
SpecTopo == TopoInit /\ [][TopoNext]_vars

MaxTopoEdges == 2

\* A topology whose interconnect may hold directed cycles, self-loops and
\* parallel edges: any list of edges between its crossbars.
GraphInit ==
    /\ \E n \in 1..MaxTopoNodes :
         /\ topo_nodes \in [1..n -> {TopoCrossbar(LITERAL("a", TRUE), {name}, "w") :
                                       name \in {PrimaryInput, "w"}}]
         /\ \E m \in 0..MaxTopoEdges : topo_edges \in [1..m -> (1..n) \X (1..n)]
    /\ topo_instance \in [Atoms \cup {PrimaryInput} -> BOOLEAN]
    /\ topo_input_function = PrimaryInput
    /\ evaluations = <<>>
    /\ tpc = "Call"
    /\ node_index = 0
    /\ pending = <<>>
    /\ IsoOff
    /\ NoCrossbar
    /\ MapOff
    /\ IoOff

\* line 250: the generator of topological_sort has no node left to yield but
\* nodes of positive in-degree remain: NetworkXUnfeasible leaves eval.
RaiseUnfeasible ==
    /\ tpc = "Loop"
    /\ pending = <<>>
    /\ node_index = Len(topological_sort(Len(topo_nodes), topo_edges))
    /\ Unfeasible(Len(topo_nodes), topo_edges)
    /\ tpc' = "NetworkXUnfeasible"
    /\ UNCHANGED <<topo_nodes, topo_edges, topo_instance, topo_input_function, evaluations, node_index, pending>>
    /\ UNCHANGED nonTopoVars

GraphNext == TopoNext \/ RaiseUnfeasible

\* The guards of the steps of eval: the call has a next step.
Running ==
    \/ tpc \in {"Call", "Seeded"}
    \/ /\ tpc = "Loop"
       /\ \/ pending # <<>>
          \/ node_index <= Len(topological_sort(Len(topo_nodes), topo_edges))

\* Topology.eval on any interconnect graph.
SpecGraph == GraphInit /\ [][GraphNext]_vars

(***************************************************************************)
(* CrossbarMapping2D (synth/CrossbarMapping2D.py).                         *)
(***************************************************************************)
\* The nodes of a drawn diagram, in the order of graph.nodes.
MapNodes == <<1, 2, 3>>
\* The most edges of a drawn diagram.
MaxMapEdges == 2
\* The labels of VHLabeling: 1 is Vertical, -1 is Horizontal, 0 is Both.
Labels == {1, -1, 0}
\* The literal on the edges of a drawn diagram.
EdgeLiterals == {LITERAL("a", TRUE)}
\* The variable of the terminal and the output variable of the root.
TerminalVariable == "1"
OutputVariable == "o"
\* graph.nodes[n]: the attributes of a diagram node.
NodeData(variable, terminal, root, output_variables) ==
    [variable |-> variable, terminal |-> terminal, root |-> root,
     output_variables |-> output_variables]
\* The attributes of the nodes of a diagram with at most one terminal and at
\* most one root.
DataOf(graph_nodes, terminal, root) ==
    [n \in Range(graph_nodes) |->
       NodeData(IF n = terminal THEN TerminalVariable ELSE "a", n = terminal, n = root,
                IF n = root THEN {OutputVariable} ELSE {})]
\* No node is the terminal, or the root.
NoNode == 0

\* list.index(x), counted from 0; -1 stands for the ValueError of an absent x.
Index(list, x) ==
    IF \E i \in 1..Len(list) : list[i] = x
    THEN (CHOOSE i \in 1..Len(list) : list[i] = x /\ \A j \in 1..(i - 1) : list[j] # x) - 1
    ELSE -1

\* x in list
In(list, x) == \E i \in 1..Len(list) : list[i] = x

\* lines 27-34: the horizontal list.
Horizontal(graph_nodes, labeling) ==
    LET test(node) == labeling[node] # 1
    IN SelectSeq(graph_nodes, test)

\* lines 27-34: the vertical list.
Vertical(graph_nodes, labeling) ==
    LET test(node) == labeling[node] # -1
    IN SelectSeq(graph_nodes, test)

\* A placement that takes the row from node_a and the column from node_b in
\* every case.
CellOfAB(h, v, node_a, node_b) == <<Index(h, node_a), Index(v, node_b)>>

\* lines 74-105: the cell (r, c) of the literal of the edge (node_a, node_b).
CellOf(h, v, node_a, node_b) ==
    IF In(h, node_a) /\ In(v, node_a)
    THEN IF In(h, node_b) THEN <<Index(h, node_b), Index(v, node_a)>>
         ELSE <<Index(h, node_a), Index(v, node_b)>>
    ELSE IF In(h, node_b) /\ In(v, node_b)
    THEN IF In(h, node_a) THEN <<Index(h, node_a), Index(v, node_b)>>
         ELSE <<Index(h, node_b), Index(v, node_a)>>
    ELSE IF In(h, node_a) /\ In(v, node_b)
    THEN <<Index(h, node_a), Index(v, node_b)>>
    ELSE <<Index(h, node_b), Index(v, node_a)>>

\* lines 83-85 and 95-97: the node whose own cell is set to TRUE(), or NoNode.
TiedNode(h, v, node_a, node_b) ==
    IF In(h, node_a) /\ In(v, node_a) THEN node_a
    ELSE IF In(h, node_b) /\ In(v, node_b) THEN node_b
    ELSE NoNode

\* lines 53-67: the nodes whose index in horizontal is taken for a rail.
RailNodes(g, io, e) ==
    IF io THEN {n \in {e.node_a, e.node_b} : g.data[n].terminal \/ g.data[n].root} ELSE {}

\* dict[name] = (0, index) for every name.
Bind(dict, names, index) ==
    [key \in DOMAIN dict \cup names |-> IF key \in names THEN <<0, index>> ELSE dict[key]]

\* lines 54-59: the input rail of a terminal endpoint, node_a before node_b.
RecordInputs(dict, g, h, e) ==
    LET of(d, node) == IF g.data[node].terminal
                       THEN Bind(d, {g.data[node].variable}, Index(h, node)) ELSE d
    IN of(of(dict, e.node_a), e.node_b)

\* lines 60-67: the output rails of a root endpoint, node_a before node_b.
RecordRoots(dict, g, h, e) ==
    LET of(d, node) == IF g.data[node].root
                       THEN Bind(d, g.data[node].output_variables, Index(h, node)) ELSE d
    IN of(of(dict, e.node_a), e.node_b)

\* lines 109-113: the output rails of the roots no edge visited, in the order
\* of the given list.
RECURSIVE RecordUnvisited(_, _, _, _)
RecordUnvisited(dict, g, h, unvisited) ==
    IF unvisited = <<>> THEN dict
    ELSE RecordUnvisited(Bind(dict, g.data[Head(unvisited)].output_variables,
                              Index(h, Head(unvisited))),
                         g, h, Tail(unvisited))

\* The loop of lines 46-105 from the edge i on.
RECURSIVE EdgeLoop(_, _, _, _, _, _)
EdgeLoop(acc, g, h, v, io, i) ==
    IF i > Len(g.edges) THEN acc
    ELSE LET e == g.edges[i]
             cell == CellOf(h, v, e.node_a, e.node_b)
             tied == TiedNode(h, v, e.node_a, e.node_b)
             placed == set_memristor(acc.crossbar, cell[1], cell[2], e.literal, 0, FALSE)
         IN IF \E n \in RailNodes(g, io, e) : ~In(h, n)
            THEN [acc EXCEPT !.raised = "RaisedRail"]
            ELSE IF cell[1] < 0 \/ cell[2] < 0
            THEN [acc EXCEPT !.raised = "RaisedPlacement"]
            ELSE EdgeLoop(
                   [crossbar |-> IF tied = NoNode THEN placed
                                 ELSE set_memristor(placed, Index(h, tied), Index(v, tied),
                                                    LITERAL("True", TRUE), 0, FALSE),
                    placements |-> Append(acc.placements,
                                          [edge |-> i, r |-> cell[1], c |-> cell[2],
                                           literal |-> e.literal]),
                    visited_nodes |-> acc.visited_nodes \cup {e.node_a, e.node_b},
                    input_nodes |-> IF io THEN RecordInputs(acc.input_nodes, g, h, e)
                                    ELSE acc.input_nodes,
                    root_nodes |-> IF io THEN RecordRoots(acc.root_nodes, g, h, e)
                                   ELSE acc.root_nodes,
                    raised |-> None],
                   g, h, v, io, i + 1)

\* _edge_assignment: the loop, the roots no edge visited (lines 107-113) and
\* the rails (lines 116-120).
EdgeAssignment(xb, g, h, v, io) ==
    LET acc == EdgeLoop([crossbar |-> xb, placements |-> <<>>, visited_nodes |-> {},
                         input_nodes |-> EmptyDict, root_nodes |-> EmptyDict, raised |-> None],
                        g, h, v, io, 1)
        unvisited_roots == SelectSeq(g.nodes,
                                     LAMBDA n : n \notin acc.visited_nodes /\ g.data[n].root)
        root_nodes == RecordUnvisited(acc.root_nodes, g, h, unvisited_roots)
    IN IF acc.raised # None THEN acc
       ELSE IF \E k \in 1..Len(unvisited_roots) : ~In(h, unvisited_roots[k])
       THEN [acc EXCEPT !.raised = "RaisedUnvisited"]
       ELSE [acc EXCEPT !.crossbar = [acc.crossbar EXCEPT !.input_nanowires = acc.input_nodes,
                                                          !.output_nanowires = root_nodes],
                        !.root_nodes = root_nodes]

\* The edges of a drawn diagram: at most one edge between two nodes.
MapEdges ==
    {e \in [node_a : Range(MapNodes), node_b : Range(MapNodes), literal : EdgeLiterals] :
       e.node_a # e.node_b}

MapInit ==
    /\ \E n \in 0..MaxMapEdges :
         \E edges \in [1..n -> MapEdges], terminal \in Range(MapNodes) \cup {NoNode},
            root \in Range(MapNodes) \cup {NoNode} :
           /\ \A i, j \in 1..n :
                i # j => {edges[i].node_a, edges[i].node_b} # {edges[j].node_a, edges[j].node_b}
           /\ self_graph = [nodes |-> MapNodes, edges |-> edges,
                            data |-> DataOf(MapNodes, terminal, root)]
    /\ gamma = 0
    /\ x_vars = <<>>
    /\ vh_labeling \in [Range(MapNodes) -> Labels]
    /\ io_constraints \in BOOLEAN
    /\ horizontal = <<>>
    /\ vertical = <<>>
    /\ placements = <<>>
    /\ mpc = "Constructed"
    /\ crossbar = None
    /\ last = None
    /\ IsoOff
    /\ TopoOff
    /\ IoOff

\* _node_assignment (lines 26-39)
NodeAssignment ==
    /\ mpc = "Constructed"
    /\ horizontal' = Horizontal(self_graph.nodes, vh_labeling)
    /\ vertical' = Vertical(self_graph.nodes, vh_labeling)
    /\ crossbar' = Crossbar("MemristorCrossbar", Len(horizontal'), Len(vertical'), 1)
    /\ mpc' = "Assigned"
    /\ UNCHANGED <<self_graph, gamma, x_vars, vh_labeling, io_constraints, placements>>
    /\ UNCHANGED nonMapVars

\* _edge_assignment (lines 41-121)
AssignEdges ==
    /\ mpc = "Assigned"
    /\ LET acc == EdgeAssignment(crossbar, self_graph, horizontal, vertical, io_constraints)
       IN /\ crossbar' = acc.crossbar
          /\ placements' = acc.placements
          /\ mpc' = IF acc.raised = None THEN "Placed" ELSE acc.raised
    /\ UNCHANGED <<self_graph, gamma, x_vars, vh_labeling, io_constraints, horizontal, vertical>>
    /\ UNCHANGED nonMapVars

\* line 20: self.crossbar.flip_vertical()
FlipVertical ==
    /\ mpc = "Placed"
    /\ crossbar' = flip_vertical(crossbar)
    /\ mpc' = "Mapped"
    /\ UNCHANGED <<self_graph, gamma, x_vars, vh_labeling, io_constraints, horizontal, vertical, placements>>
    /\ UNCHANGED nonMapVars

MapNext == NodeAssignment \/ AssignEdges \/ FlipVertical

\* CrossbarMapping2D.map on a diagram and a labeling.
SpecMap == MapInit /\ [][MapNext]_vars

(***************************************************************************)
(* VHLabeling.label (synth/VHLabeling.py, lines 38-125), followed by the   *)
(* mapper.  The solver is given the program of lines 44-77 and returns one *)
(* of its optimal solutions.                                               *)
(***************************************************************************)
\* config.gamma, in halves.
Gammas == {0, 1, 2}

Bit(b) == IF b THEN 1 ELSE 0

\* line 47: the assignments of the binary variables x[v]['V'], x[v]['H'].
XVars(g) == [Range(g.nodes) -> [V : BOOLEAN, H : BOOLEAN]]

\* lines 67-69: the two inequalities of an edge hold for a value of s_vars[e].
EdgeRealizable(x, e) ==
    \E s_e \in {0, 1} :
      /\ Bit(x[e.node_a].V) + Bit(x[e.node_b].H) >= 2 - 2 * s_e
      /\ Bit(x[e.node_a].H) + Bit(x[e.node_b].V) >= 2 - 2 * (1 - s_e)

\* lines 67-77: the constraints on x_vars.
LpFeasible(g, io, x) ==
    /\ \A i \in 1..Len(g.edges) : EdgeRealizable(x, g.edges[i])
    /\ io => \A v \in Range(g.nodes) : (g.data[v].root \/ g.data[v].terminal) => x[v].H

\* lines 59-65, doubled: gamma * S + (1 - gamma) * D with S the sum of
\* x_vars and D, which is minimised, the larger of R and C.
LpObjective(g, gam, x) ==
    LET nodes == g.nodes
        R == SumSeq([k \in 1..Len(nodes) |-> Bit(x[nodes[k]].V)])
        C == SumSeq([k \in 1..Len(nodes) |-> Bit(x[nodes[k]].H)])
    IN gam * (R + C) + (2 - gam) * Max2(R, C)

\* line 81: the optimal solutions of the program.
LpOptimal(g, io, gam) ==
    {x \in XVars(g) :
       /\ LpFeasible(g, io, x)
       /\ \A y \in XVars(g) : LpFeasible(g, io, y) => LpObjective(g, gam, x) <= LpObjective(g, gam, y)}

\* lines 90-97: self.labeling
LabelingOf(g, x) ==
    [v \in Range(g.nodes) |-> (IF x[v].V THEN 1 ELSE 0) + (IF x[v].H THEN -1 ELSE 0)]

LabelInit ==
    /\ \E n \in 0..MaxMapEdges :
         \E edges \in [1..n -> MapEdges], terminal \in Range(MapNodes) \cup {NoNode},
            root \in Range(MapNodes) \cup {NoNode} :
           /\ \A i, j \in 1..n :
                i # j => {edges[i].node_a, edges[i].node_b} # {edges[j].node_a, edges[j].node_b}
           /\ self_graph = [nodes |-> MapNodes, edges |-> edges,
                            data |-> DataOf(MapNodes, terminal, root)]
    /\ gamma \in Gammas
    /\ x_vars = <<>>
    /\ vh_labeling = <<>>
    /\ io_constraints \in BOOLEAN
    /\ horizontal = <<>>
    /\ vertical = <<>>
    /\ placements = <<>>
    /\ mpc = "Labeling"
    /\ crossbar = None
    /\ last = None
    /\ IsoOff
    /\ TopoOff
    /\ IoOff

\* VHLabeling(graph).label(), then CrossbarMapping2D(graph)
Label ==
    /\ mpc = "Labeling"
    /\ x_vars' \in LpOptimal(self_graph, io_constraints, gamma)
    /\ vh_labeling' = LabelingOf(self_graph, x_vars')
    /\ mpc' = "Constructed"
    /\ UNCHANGED <<self_graph, gamma, io_constraints, horizontal, vertical, placements, crossbar>>
    /\ UNCHANGED nonMapVars

LabelNext == Label \/ NodeAssignment \/ AssignEdges \/ FlipVertical

\* A diagram labelled by the optimizer and mapped.
SpecLabel == LabelInit /\ [][LabelNext]_vars

(***************************************************************************)
(* Decision diagrams (the dag of a BDD, built outside synth/): the nodes   *)
(* carry variable, terminal, root and output_variables, the edges carry a  *)
(* literal on the variable of their source.  The dag is a DiGraph: at most *)
(* one edge between two nodes.                                             *)
(***************************************************************************)
\* The nodes of a drawn diagram, in the order of dag.nodes.
DdNodes == <<1, 2, 3, 4>>
\* The variables of the nodes that are not terminals.
DdVariables == {"a", "b"}
\* The variables of the two terminals.
TrueTerminal == "1"
FalseTerminal == "0"
\* Every instance of the variables.
DdInstances == [DdVariables -> BOOLEAN]

\* The nodes reached from the set S in 1..k steps along the out-edges.
RECURSIVE After(_, _, _, _)
After(pos, neg, S, k) ==
    IF k = 0 THEN {}
    ELSE LET next == ({pos[x] : x \in S} \cup {neg[x] : x \in S}) \ {NoNode}
         IN next \cup After(pos, neg, next, k - 1)

\* A node of a diagram of n nodes: kind is its variable, pos and neg are the
\* targets of its positive and its negative out-edge (NoNode for none).  A
\* terminal has no out-edge, and two out-edges of a node have two targets.
NodeShapes(n) ==
    [kind : {TrueTerminal, FalseTerminal}, pos : {NoNode}, neg : {NoNode}]
      \cup {t \in [kind : DdVariables, pos : 0..n, neg : 0..n] : t.pos = t.neg => t.pos = NoNode}

\* The nodes with a positive and a negative out-edge, and the terminals.
WellFormedShapes(n) ==
    {t \in NodeShapes(n) : t.kind \in DdVariables => t.pos # NoNode /\ t.neg # NoNode}

\* No edge from a node to itself, no cycle, and one terminal of each value at
\* most.
IsDiagram(n, shape) ==
    LET pos == [x \in 1..n |-> shape[x].pos]
        neg == [x \in 1..n |-> shape[x].neg]
    IN /\ \A x \in 1..n : x \notin After(pos, neg, {x}, n)
       /\ \A x, y \in 1..n :
            (x # y /\ shape[x].kind = shape[y].kind) => shape[x].kind \in DdVariables

\* Each node that is not a terminal has a positive and a negative out-edge.
IsWellFormed(g) ==
    \A k \in 1..Len(g.nodes) :
      ~g.data[g.nodes[k]].terminal =>
        \A positive \in BOOLEAN :
          \E i \in 1..Len(g.edges) :
            /\ g.edges[i].node_a = g.nodes[k]
            /\ g.edges[i].literal = LITERAL(g.data[g.nodes[k]].variable, positive)

\* dag.edges: by source in the order of the nodes, the positive edge first.
DiagramEdges(n, shape) ==
    Flatten([x \in 1..n |->
               (IF shape[x].pos # NoNode
                  THEN <<[node_a |-> x, node_b |-> shape[x].pos,
                          literal |-> LITERAL(shape[x].kind, TRUE)]>>
                  ELSE <<>>)
               \o (IF shape[x].neg # NoNode
                     THEN <<[node_a |-> x, node_b |-> shape[x].neg,
                             literal |-> LITERAL(shape[x].kind, FALSE)]>>
                     ELSE <<>>)])

\* The diagram with the output names on the node root.
DiagramOf(n, shape, root, names) ==
    [nodes |-> SubSeq(DdNodes, 1, n),
     edges |-> DiagramEdges(n, shape),
     data |-> [x \in 1..n |->
                 NodeData(shape[x].kind, shape[x].kind \in {TrueTerminal, FalseTerminal}, x = root,
                          IF x = root THEN names ELSE {})]]

\* The value of the diagram at node under the instance: the variable of the
\* terminal its path ends in, or None where the path has no edge to follow.
RECURSIVE Follow(_, _, _)
Follow(g, node, instance) ==
    IF g.data[node].terminal THEN g.data[node].variable
    ELSE LET taken == {i \in 1..Len(g.edges) :
                         /\ g.edges[i].node_a = node
                         /\ g.edges[i].literal.positive = instance[g.data[node].variable]}
         IN IF taken = {} THEN None
            ELSE Follow(g, g.edges[CHOOSE i \in taken : TRUE].node_b, instance)

(***************************************************************************)
(* ChakrabortyAutomatedSynthesis.map (synth/ChakrabortyAutomatedSynthesis.py). *)
(***************************************************************************)
\* node_layers[node] (lines 51-52)
NodeLayer(g, node) == Index(g.nodes, node)

\* lines 44-47: root_nodes, over the nodes from position k on.
RECURSIVE RootNodesDict(_, _, _)
RootNodesDict(dict, g, k) ==
    IF k > Len(g.nodes) THEN dict
    ELSE RootNodesDict(IF g.data[g.nodes[k]].root
                         THEN Bind(dict, g.data[g.nodes[k]].output_variables, k - 1)
                         ELSE dict,
                       g, k + 1)

\* lines 48-50: input_nodes, over the nodes from position k on.
RECURSIVE InputNodesDict(_, _, _)
InputNodesDict(dict, g, k) ==
    IF k > Len(g.nodes) THEN dict
    ELSE InputNodesDict(IF g.data[g.nodes[k]].terminal
                          THEN Bind(dict, {g.data[g.nodes[k]].variable}, k - 1)
                          ELSE dict,
                        g, k + 1)

\* lines 59-66: the target of the last out-edge of the polarity, or NoNode.
ChildNode(out_edges, positive) ==
    LET at == {i \in 1..Len(out_edges) : out_edges[i].literal.positive = positive}
    IN IF at = {} THEN NoNode
       ELSE out_edges[CHOOSE i \in at : \A j \in at : j <= i].node_b

\* A column with the literal at the row of the child and always-conducting
\* at the row of the node.
PlaceColumnSwapped(xb, g, current_node, child_node, positive, c) ==
    set_memristor(
      set_memristor(xb, NodeLayer(g, child_node), c,
                    LITERAL(g.data[current_node].variable, positive), 0, FALSE),
      NodeLayer(g, current_node), c, LITERAL("True", TRUE), 0, FALSE)

\* lines 68-79: the column c of an out-edge of current_node.
PlaceColumn(xb, g, current_node, child_node, positive, c) ==
    set_memristor(
      set_memristor(xb, NodeLayer(g, current_node), c,
                    LITERAL(g.data[current_node].variable, positive), 0, FALSE),
      NodeLayer(g, child_node), c, LITERAL("True", TRUE), 0, FALSE)

\* lines 54-79: the loop over the nodes from position k on, c the next column.
RECURSIVE ColumnLoop(_, _, _, _)
ColumnLoop(xb, g, k, c) ==
    IF k > Len(g.nodes) THEN xb
    ELSE LET current_node == g.nodes[k]
             out_edges == SelectSeq(g.edges, LAMBDA e : e.node_a = current_node)
             positive_child_node == ChildNode(out_edges, TRUE)
             negative_child_node == ChildNode(out_edges, FALSE)
             with_positive == IF positive_child_node # NoNode
                              THEN PlaceColumn(xb, g, current_node, positive_child_node, TRUE, c)
                              ELSE xb
             c_negative == IF positive_child_node # NoNode THEN c + 1 ELSE c
             with_negative == IF negative_child_node # NoNode
                              THEN PlaceColumn(with_positive, g, current_node,
                                               negative_child_node, FALSE, c_negative)
                              ELSE with_positive
         IN ColumnLoop(with_negative, g, k + 1,
                       IF negative_child_node # NoNode THEN c_negative + 1 ELSE c_negative)

\* map (lines 30-85)
ChakrabortyMap(g) ==
    LET placed == ColumnLoop(Crossbar("MemristorCrossbar", Len(g.nodes), Len(g.edges), 1), g, 1, 0)
    IN [placed EXCEPT !.input_nanowires = InputNodesDict(EmptyDict, g, 1),
                      !.output_nanowires = RootNodesDict(EmptyDict, g, 1)]

\* The names on the root of a drawn diagram.
OutputNames == {{"o"}, {"o", "p"}}

\* The state before a synthesis method runs on the diagram g.
SynthesisOf(g) ==
    /\ self_graph = g
    /\ gamma = 0
    /\ x_vars = <<>>
    /\ vh_labeling = <<>>
    /\ io_constraints = TRUE
    /\ horizontal = <<>>
    /\ vertical = <<>>
    /\ placements = <<>>
    /\ mpc = "Constructed"
    /\ crossbar = None
    /\ last = None
    /\ IsoOff
    /\ TopoOff
    /\ IoOff

\* Every well-formed diagram of up to four nodes.
DirectInit ==
    \E n \in 1..Len(DdNodes) :
      \E shape \in [1..n -> WellFormedShapes(n)] :
        /\ IsDiagram(n, shape)
        /\ \E root \in 1..n, names \in OutputNames :
             SynthesisOf(DiagramOf(n, shape, root, names))

\* ChakrabortyAutomatedSynthesis(bdd).map()
DirectMap ==
    /\ mpc = "Constructed"
    /\ crossbar' = ChakrabortyMap(self_graph)
    /\ mpc' = "DirectMapped"
    /\ UNCHANGED <<self_graph, gamma, x_vars, vh_labeling, io_constraints, horizontal, vertical,
                   placements>>
    /\ UNCHANGED nonMapVars

\* Every well-formed diagram of up to four nodes with every labeling that
\* satisfies the edge constraints and the io constraints.
CompactInit ==
    /\ \E n \in 1..Len(DdNodes) :
         \E shape \in [1..n -> WellFormedShapes(n)] :
           /\ IsDiagram(n, shape)
           /\ \E root \in 1..n :
                /\ self_graph = DiagramOf(n, shape, root, {OutputVariable})
                /\ vh_labeling \in [1..n -> Labels]
    /\ io_constraints = TRUE
    /\ \A i \in 1..Len(self_graph.edges) :
         LET a == self_graph.edges[i].node_a
             b == self_graph.edges[i].node_b
         IN \/ vh_labeling[a] # 1 /\ vh_labeling[b] # -1
            \/ vh_labeling[b] # 1 /\ vh_labeling[a] # -1
    /\ \A k \in 1..Len(self_graph.nodes) :
         (self_graph.data[k].terminal \/ self_graph.data[k].root) => vh_labeling[k] # 1
    /\ gamma = 0
    /\ x_vars = <<>>
    /\ horizontal = <<>>
    /\ vertical = <<>>
    /\ placements = <<>>
    /\ mpc = "Constructed"
    /\ crossbar = None
    /\ last = None
    /\ IsoOff
    /\ TopoOff
    /\ IoOff

CompactNext == NodeAssignment \/ AssignEdges \/ FlipVertical

\* COMPACT.map with the 2D mapper on the well-formed diagrams.
SpecCompact == CompactInit /\ [][CompactNext]_vars

(***************************************************************************)
(* PATH._bdd_to_bipartite_graph (synth/PATH.py, lines 34-74) and           *)
(* UnconstrainedPartitioning (synth/UnconstrainedPartitioning.py).         *)
(* A vertex of the bipartite graph is <<"node", x>> for the diagram node x *)
(* or <<"edge", i>> for the i-th edge of the diagram.                      *)
(***************************************************************************)
NodeVertex(x) == <<"node", x>>
EdgeVertex(i) == <<"edge", i>>

\* lines 54-60: the placeholder graph of an empty diagram.  The variables of
\* its nodes are the ints 1 and 2, the output is named after the diagram.
PlaceholderGraph(name) ==
    [vertices |-> <<NodeVertex(1), NodeVertex(2), EdgeVertex(1)>>,
     arcs |-> <<<<NodeVertex(1), EdgeVertex(1)>>, <<EdgeVertex(1), NodeVertex(2)>>>>,
     data |-> <<NodeData("int 1", TRUE, FALSE, {}), NodeData("int 2", FALSE, TRUE, {name})>>,
     literal |-> <<LITERAL("False", FALSE)>>]

\* lines 67-73: the in-edges of the nodes in the order of the nodes; the
\* edge (v, u) becomes a vertex with the arcs u -> (v, u) -> v.
InEdgeOrder(g) ==
    Flatten([k \in 1..Len(g.nodes) |->
               SelectSeq([i \in 1..Len(g.edges) |-> i],
                         LAMBDA i : g.edges[i].node_b = g.nodes[k])])

\* _bdd_to_bipartite_graph
BipartiteGraph(g, name) ==
    IF Len(g.nodes) = 0 THEN PlaceholderGraph(name)
    ELSE LET in_edges == InEdgeOrder(g)
         IN [vertices |-> [k \in 1..Len(g.nodes) |-> NodeVertex(g.nodes[k])]
                            \o [k \in 1..Len(in_edges) |-> EdgeVertex(in_edges[k])],
             arcs |-> Flatten([k \in 1..Len(in_edges) |->
                                 <<<<NodeVertex(g.edges[in_edges[k]].node_b), EdgeVertex(in_edges[k])>>,
                                   <<EdgeVertex(in_edges[k]), NodeVertex(g.edges[in_edges[k]].node_a)>>>>]),
             data |-> g.data,
             literal |-> [i \in 1..Len(g.edges) |-> g.edges[i].literal]]

\* The vertices connected to the set seen, whatever the direction of the arcs.
RECURSIVE Component(_, _)
Component(seen, arcs) ==
    LET next == seen \cup {arcs[k][2] : k \in {j \in 1..Len(arcs) : arcs[j][1] \in seen}}
                     \cup {arcs[k][1] : k \in {j \in 1..Len(arcs) : arcs[j][2] \in seen}}
    IN IF next = seen THEN seen ELSE Component(next, arcs)

\* networkx.algorithms.bipartite.sets(B) (UnconstrainedPartitioning.py, line
\* 26): a graph that is not weakly connected raises AmbiguousSolution; the
\* first vertex with a successor and its side get colour 1 (the set U), the
\* other side and a vertex without any arc get colour 0 (the set V).
BipartiteSets(B) ==
    LET all == Range(B.vertices)
        with_successor == {k \in 1..Len(B.vertices) :
                             \E j \in 1..Len(B.arcs) : B.arcs[j][1] = B.vertices[k]}
        first == B.vertices[CHOOSE k \in with_successor : \A j \in with_successor : k <= j]
    IN IF Component({B.vertices[1]}, B.arcs) # all
       THEN [raised |-> "RaisedAmbiguousSolution", U |-> {}, V |-> {}]
       ELSE IF with_successor = {}
       THEN [raised |-> None, U |-> {}, V |-> all]
       ELSE [raised |-> None,
             U |-> {v \in all : v[1] = first[1]},
             V |-> {v \in all : v[1] # first[1]}]

\* lines 53-63: the rails of the wordlines that are roots and terminals.
RECURSIVE PartitionRails(_, _, _, _)
PartitionRails(xb, B, wordlines, k) ==
    IF k > Len(wordlines) THEN xb
    ELSE LET d == B.data[wordlines[k][2]]
             with_output == IF d.root
                            THEN [xb EXCEPT !.output_nanowires = Bind(@, d.output_variables, k - 1)]
                            ELSE xb
             with_input == IF d.terminal
                           THEN [with_output EXCEPT !.input_nanowires = Bind(@, {d.variable}, k - 1)]
                           ELSE with_output
         IN PartitionRails(with_input, B, wordlines, k + 1)

\* lines 66-73: the cells (layer, r, c) of the arcs.
ArcCells(B, U, wordlines, selectorlines) ==
    {<<0, IF B.arcs[k][1] \in U THEN Index(wordlines, B.arcs[k][1])
          ELSE Index(wordlines, B.arcs[k][2]),
        IF B.arcs[k][1] \in U THEN Index(selectorlines, B.arcs[k][2])
          ELSE Index(selectorlines, B.arcs[k][1])>> : k \in 1..Len(B.arcs)}

\* partition (lines 41-85) with list(self.U) = wordlines and list(self.V) =
\* selectorlines.  A vertex of V that is a diagram node has no literal, and
\* line 77 raises KeyError.
Partitioned(B, U, wordlines, selectorlines) ==
    LET xb == Crossbar("SelectorCrossbar", Len(wordlines), Len(selectorlines), 1)
        cells == ArcCells(B, U, wordlines, selectorlines)
        programmed == [xb EXCEPT !.matrix = [k \in DOMAIN xb.matrix |->
                         IF k \in cells
                         THEN set_memristor(xb, k[2], k[3], LITERAL("True", TRUE), 0, FALSE).matrix[k]
                         ELSE xb.matrix[k]]]
    IN IF \E k \in 1..Len(selectorlines) : selectorlines[k][1] # "edge"
       THEN [raised |-> "RaisedKeyError", crossbar |-> None]
       ELSE [raised |-> None,
             crossbar |-> [PartitionRails(programmed, B, wordlines, 1) EXCEPT
                             !.selectorlines = [k \in 1..Len(selectorlines) |->
                                                  B.literal[selectorlines[k][2]]]]]

\* The most nodes of a diagram drawn with any out-edges.
SynthNodes == <<1, 2, 3>>

\* Every diagram of up to three nodes, whether or not it is well-formed.
SynthInit ==
    \E n \in 1..Len(SynthNodes) :
      \E shape \in [1..n -> NodeShapes(n)] :
        /\ IsDiagram(n, shape)
        /\ \E root \in 1..n, names \in OutputNames :
             SynthesisOf(DiagramOf(n, shape, root, names))

\* PATH(bdd, UnconstrainedPartitioning).map(): the sets U and V are listed in
\* an order the code does not fix.  horizontal and vertical keep the
\* wordlines and the selectorlines.
Partition ==
    /\ mpc = "Constructed"
    /\ LET B == BipartiteGraph(self_graph, OutputVariable)
           parts == BipartiteSets(B)
       IN \E wordlines \in Orders(parts.U), selectorlines \in Orders(parts.V) :
            LET outcome == Partitioned(B, parts.U, wordlines, selectorlines)
            IN IF parts.raised # None
               THEN /\ mpc' = parts.raised
                    /\ UNCHANGED <<crossbar, horizontal, vertical, topo_nodes>>
               ELSE IF outcome.raised # None
               THEN /\ mpc' = outcome.raised
                    /\ UNCHANGED <<crossbar, horizontal, vertical, topo_nodes>>
               ELSE /\ mpc' = "Partitioned"
                    /\ crossbar' = outcome.crossbar
                    /\ horizontal' = wordlines
                    /\ vertical' = selectorlines
                    /\ topo_nodes' = <<outcome.crossbar>>
    /\ UNCHANGED <<self_graph, gamma, x_vars, vh_labeling, io_constraints, placements>>
    /\ UNCHANGED <<isoVars, last, ioVars>>
    /\ UNCHANGED <<topo_edges, topo_instance, topo_input_function, evaluations, tpc, node_index,
                   pending>>

SynthNext == DirectMap \/ Partition

\* The Direct Mapper and PATH on the diagrams of up to three nodes.
SpecSynth == SynthInit /\ [][SynthNext]_vars

DirectNext == DirectMap

\* The Direct Mapper on the well-formed diagrams.
SpecDirect == DirectInit /\ [][DirectNext]_vars

(***************************************************************************)
(* MemristorCrossbar.to_string and from_string (Crossbar.py, lines         *)
(* 333-435).  A text is a sequence of characters.                          *)
(***************************************************************************)
\* The characters of the names and atoms of the drawn crossbars.
CharsOf ==
    ("a" :> <<"a">>) @@ ("A" :> <<"A">>) @@ ("1a" :> <<"1", "a">>)
      @@ ("a_b" :> <<"a", "_", "b">>) @@ ("f" :> <<"f">>) @@ ("o" :> <<"o">>)

\* The string of a sequence of characters; "?" is a string no crossbar holds.
StringOf(chars) ==
    IF \E s \in DOMAIN CharsOf : CharsOf[s] = chars
    THEN CHOOSE s \in DOMAIN CharsOf : CharsOf[s] = chars
    ELSE "?"

Digits == <<"0", "1", "2", "3", "4", "5", "6", "7", "8", "9">>

LowerCase ==
    {"a", "b", "c", "d", "e", "f", "g", "h", "i", "j", "k", "l", "m", "n", "o", "p", "q",
     "r", "s", "t", "u", "v", "w", "x", "y", "z"}

Whitespace == {" ", "\t", "\n", "\r"}

\* "{}".format(n) of an integer n >= 0
RECURSIVE Str(_)
Str(n) == IF n < 10 THEN <<Digits[n + 1]>> ELSE Str(n \div 10) \o <<Digits[(n % 10) + 1]>>

IsNumber(chars) == chars # <<>> /\ \A i \in 1..Len(chars) : chars[i] \in Range(Digits)

\* int(chars) of a sequence of digits
RECURSIVE ParseInt(_)
ParseInt(chars) ==
    IF chars = <<>> THEN 0
    ELSE 10 * ParseInt(SubSeq(chars, 1, Len(chars) - 1))
           + (CHOOSE d \in 0..9 : Digits[d + 1] = chars[Len(chars)])

\* str(literal) of a literal that is no constant: atom, or ~atom.
LiteralStr(literal) ==
    IF literal.positive THEN CharsOf[literal.atom] ELSE <<"~">> \o CharsOf[literal.atom]

\* "{}".format(self._literal_representation(literal)) (lines 43-50, 430-434)
LiteralText(literal) ==
    IF literal = LITERAL("True", TRUE) THEN Str(1)
    ELSE IF literal = LITERAL("False", FALSE) THEN Str(0)
    ELSE LiteralStr(literal)

\* ' '.join(words)
RECURSIVE JoinWords(_)
JoinWords(words) ==
    IF words = <<>> THEN <<>>
    ELSE IF Len(words) = 1 THEN words[1]
    ELSE words[1] \o <<" ">> \o JoinWords(Tail(words))

\* The characters of a keyword.
Directive ==
    [ model |-> <<".", "m", "o", "d", "e", "l">>,
      type |-> <<".", "t", "y", "p", "e">>,
      inputs |-> <<".", "i", "n", "p", "u", "t", "s">>,
      outputs |-> <<".", "o", "u", "t", "p", "u", "t", "s">>,
      rows |-> <<".", "r", "o", "w", "s">>,
      columns |-> <<".", "c", "o", "l", "u", "m", "n", "s">>,
      i |-> <<".", "i">>,
      o |-> <<".", "o">>,
      xbar |-> <<".", "x", "b", "a", "r">>,
      end |-> <<".", "e", "n", "d">> ]

\* lines 416-425: the line of a rail.
RailLine(keyword, name, nanowire) ==
    IF nanowire[1] = 0
    THEN keyword \o <<" ">> \o CharsOf[name] \o <<" ">> \o Str(nanowire[2]) \o <<"\n">>
    ELSE keyword \o <<" ">> \o CharsOf[name] \o <<" ">> \o Str(nanowire[1]) \o <<" ">>
           \o Str(nanowire[2]) \o <<"\n">>

RECURSIVE RailLines(_, _, _)
RailLines(keyword, dict, order) ==
    IF order = <<>> THEN <<>>
    ELSE RailLine(keyword, Head(order), dict[Head(order)]) \o RailLines(keyword, dict, Tail(order))

\* lines 427-434: the rows r.. of the grid.
RECURSIVE GridText(_, _, _)
GridText(xb, r, c) ==
    IF r >= xb.rows THEN <<>>
    ELSE IF c >= xb.columns THEN GridText(xb, r + 1, 0)
    ELSE LiteralText(xb.matrix[<<0, r, c>>].literal)
           \o (IF c < xb.columns - 1 THEN <<"\t">> ELSE <<"\r", "\n">>)
           \o GridText(xb, r, c + 1)

\* lines 297-306: the atoms of the literals that are no constants.
get_input_variables(xb) ==
    {xb.matrix[k].literal.atom :
       k \in {j \in DOMAIN xb.matrix : xb.matrix[j].literal \notin {LitTrue, LitFalse}}}

\* to_string; the sets and dicts are walked in the given orders.
to_string(xb, inputs, outputs, ins, outs) ==
    Directive.model \o <<" ", "N", "o", "n", "e", "\n">>
      \o Directive.type \o <<" ", "m", "e", "m", "r", "i", "s", "t", "o", "r", "\n">>
      \o Directive.inputs \o <<" ">> \o JoinWords([i \in 1..Len(inputs) |-> CharsOf[inputs[i]]]) \o <<"\n">>
      \o Directive.outputs \o <<" ">> \o JoinWords([i \in 1..Len(outputs) |-> CharsOf[outputs[i]]]) \o <<"\n">>
      \o Directive.rows \o <<" ">> \o Str(xb.rows) \o <<"\n">>
      \o Directive.columns \o <<" ">> \o Str(xb.columns) \o <<"\n">>
      \o RailLines(Directive.i, xb.input_nanowires, ins)
      \o RailLines(Directive.o, xb.output_nanowires, outs)
      \o Directive.xbar \o <<"\n">>
      \o GridText(xb, 0, 0)
      \o Directive.end \o <<"\n">>

\* str.splitlines(keepends=True)
RECURSIVE splitlines(_)
splitlines(s) ==
    IF s = <<>> THEN <<>>
    ELSE LET ends == {i \in 1..Len(s) : s[i] \in {"\n", "\r"}}
             first == CHOOSE i \in ends : \A j \in ends : i <= j
             stop == IF ends = {} THEN Len(s)
                     ELSE IF s[first] = "\r" /\ first < Len(s) /\ s[first + 1] = "\n"
                          THEN first + 1
                          ELSE first
         IN <<SubSeq(s, 1, stop)>> \o splitlines(SubSeq(s, stop + 1, Len(s)))

\* str.split(): the words between runs of whitespace
RECURSIVE split(_)
split(s) ==
    IF s = <<>> THEN <<>>
    ELSE IF Head(s) \in Whitespace THEN split(Tail(s))
    ELSE LET spaces == {i \in 1..Len(s) : s[i] \in Whitespace}
             stop == IF spaces = {} THEN Len(s) + 1
                     ELSE CHOOSE i \in spaces : \A j \in spaces : i <= j
         IN <<SubSeq(s, 1, stop - 1)>> \o split(SubSeq(s, stop, Len(s)))

\* str.split("\t")
RECURSIVE SplitTab(_)
SplitTab(s) ==
    LET tabs == {i \in 1..Len(s) : s[i] = "\t"}
        first == CHOOSE i \in tabs : \A j \in tabs : i <= j
    IN IF tabs = {} THEN <<s>>
       ELSE <<SubSeq(s, 1, first - 1)>> \o SplitTab(SubSeq(s, first + 1, Len(s)))

\* str.startswith(prefix)
startswith(s, prefix) == Len(s) >= Len(prefix) /\ SubSeq(s, 1, Len(prefix)) = prefix

\* The class [\[\]a-z0-9] of the pattern of line 389.
PatternClass == LowerCase \cup Range(Digits) \cup {"[", "]"}

\* s[i] is in the class of the pattern.
InPatternClass(s, i) == s[i] \in PatternClass

\* The last position of the run of class characters from i on.
RECURSIVE RunEnd(_, _)
RunEnd(s, i) == IF i < Len(s) /\ InPatternClass(s, i + 1) THEN RunEnd(s, i + 1) ELSE i

\* The match of (-|0|1|[\[\]a-z0-9]+|~[\[\]a-z0-9]+) at position i, or <<>>.
MatchAt(s, i) ==
    IF s[i] \in {"-", "0", "1"} THEN <<s[i]>>
    ELSE IF InPatternClass(s, i) THEN SubSeq(s, i, RunEnd(s, i))
    ELSE IF s[i] = "~" /\ i < Len(s) /\ InPatternClass(s, i + 1) THEN SubSeq(s, i, RunEnd(s, i + 1))
    ELSE <<>>

\* re.findall(pattern, element): the positions where a match starts at the
\* first scan; [0] takes the leftmost one.
Matches(element) == {i \in 1..Len(element) : MatchAt(element, i) # <<>>}

FirstMatch(element) ==
    MatchAt(element, CHOOSE i \in Matches(element) : \A j \in Matches(element) : i <= j)

\* lines 390-397: the literal of raw_literal.
ParsedLiteral(raw_literal) ==
    IF raw_literal = <<"0">> THEN LITERAL("False", FALSE)
    ELSE IF raw_literal = <<"1">> THEN LITERAL("True", TRUE)
    ELSE IF raw_literal[1] = "~" THEN LITERAL(StringOf(Tail(raw_literal)), FALSE)
    ELSE LITERAL(StringOf(raw_literal), TRUE)

\* lines 343-372: the first pass over the lines, from the record acc.
RECURSIVE Header(_, _)
Header(acc, lines) ==
    IF lines = <<>> \/ acc.raised # None THEN acc
    ELSE LET line == Head(lines)
             raw_values == split(line)
             rail == IF Len(raw_values) = 3 THEN <<0, ParseInt(raw_values[3])>>
                     ELSE <<ParseInt(raw_values[3]), ParseInt(raw_values[4])>>
             numbers == IF Len(raw_values) = 3 THEN IsNumber(raw_values[3])
                        ELSE IsNumber(raw_values[3]) /\ IsNumber(raw_values[4])
             bind(dict) == [name \in DOMAIN dict \cup {StringOf(raw_values[2])} |->
                              IF name = StringOf(raw_values[2]) THEN rail ELSE dict[name]]
         IN IF startswith(line, Directive.rows \o <<" ">>) \/ startswith(line, Directive.columns \o <<" ">>)
            THEN IF Len(raw_values) # 2 \/ ~IsNumber(raw_values[2])
                 THEN [acc EXCEPT !.raised = "ValueError"]
                 ELSE IF startswith(line, Directive.rows \o <<" ">>)
                 THEN Header([acc EXCEPT !.rows = ParseInt(raw_values[2])], Tail(lines))
                 ELSE Header([acc EXCEPT !.columns = ParseInt(raw_values[2])], Tail(lines))
            ELSE IF startswith(line, Directive.i \o <<" ">>) \/ startswith(line, Directive.o \o <<" ">>)
            THEN IF Len(raw_values) \notin {3, 4} THEN [acc EXCEPT !.raised = "Exception"]
                 ELSE IF ~numbers THEN [acc EXCEPT !.raised = "ValueError"]
                 ELSE IF startswith(line, Directive.i \o <<" ">>)
                 THEN Header([acc EXCEPT !.input_nanowires = bind(acc.input_nanowires)], Tail(lines))
                 ELSE Header([acc EXCEPT !.output_nanowires = bind(acc.output_nanowires)], Tail(lines))
            ELSE Header(acc, Tail(lines))

\* lines 388-398: the elements of one line of the grid, from column c on.
RECURSIVE GridLine(_, _, _, _)
GridLine(acc, elements, r, c) ==
    IF elements = <<>> \/ acc.raised # None THEN acc
    ELSE IF Matches(Head(elements)) = {} THEN [acc EXCEPT !.raised = "IndexError"]
    ELSE IF ~InMatrix(acc.crossbar, r, c, 0) THEN [acc EXCEPT !.raised = "IndexError"]
    ELSE GridLine([acc EXCEPT !.crossbar = set_memristor(acc.crossbar, r, c,
                                                         ParsedLiteral(FirstMatch(Head(elements))), 0, FALSE)],
                  Tail(elements), r, c + 1)

\* lines 382-403: the second pass over the lines.
RECURSIVE Grid(_, _, _, _)
Grid(acc, lines, r, read) ==
    IF lines = <<>> \/ acc.raised # None THEN acc
    ELSE LET line == Head(lines)
             reading == read /\ ~startswith(line, Directive.end)
         IN Grid(IF reading THEN GridLine(acc, SplitTab(line), r, 0) ELSE acc,
                 Tail(lines),
                 IF reading THEN r + 1 ELSE r,
                 reading \/ startswith(line, Directive.xbar))

\* MemristorCrossbar.from_string(content)
from_string(text) ==
    LET lines == splitlines(text)
        header == Header([rows |-> 0, columns |-> 0, input_nanowires |-> EmptyDict,
                          output_nanowires |-> EmptyDict, raised |-> None], lines)
        constructed == [Crossbar("MemristorCrossbar", header.rows, header.columns, 1) EXCEPT
                          !.input_nanowires = header.input_nanowires,
                          !.output_nanowires = header.output_nanowires]
    IN IF header.raised # None THEN [crossbar |-> constructed, raised |-> header.raised]
       ELSE Grid([crossbar |-> constructed, raised |-> None], lines, 0, FALSE)

\* The atoms of the literals of the crossbars drawn for a round trip.
IoAtoms == {"a", "A", "1a", "a_b"}

IoLiterals == {LitFalse, LitTrue} \cup {LITERAL(atom, positive) : atom \in IoAtoms, positive \in BOOLEAN}

\* (rows, columns) of the crossbars drawn for a round trip.
IoShapes == {<<0, 0>>, <<0, 1>>, <<1, 0>>, <<0, 2>>, <<2, 0>>, <<1, 1>>, <<1, 2>>, <<2, 1>>}

\* The rails of a crossbar drawn for a round trip: none, or one on a nanowire
\* of the layer 0 or 1.
IoRails(name) == {EmptyDict} \cup [{name} -> (0..1) \X (0..1)]

IoInit ==
    /\ \E s \in IoShapes :
         \E lits \in [Cells(s[1], s[2], 1) -> IoLiterals],
            ins \in IoRails("f"), outs \in IoRails("o") :
           crossbar = MemristorCrossbarOf(<<s[1], s[2], 1>>, lits, ins, outs)
    /\ last = NoCall(crossbar)
    /\ content = <<>>
    /\ parsed = None
    /\ iopc = "Constructed"
    /\ IsoOff
    /\ TopoOff
    /\ MapOff

\* content = crossbar.to_string()
WriteString ==
    /\ iopc = "Constructed"
    /\ \E inputs \in Orders(get_input_variables(crossbar)),
          outputs \in Orders(DOMAIN crossbar.output_nanowires),
          ins \in Orders(DOMAIN crossbar.input_nanowires),
          outs \in Orders(DOMAIN crossbar.output_nanowires) :
         content' = to_string(crossbar, inputs, outputs, ins, outs)
    /\ iopc' = "Written"
    /\ UNCHANGED <<crossbar, parsed>>
    /\ UNCHANGED nonIoVars

\* parsed = MemristorCrossbar.from_string(content)
ReadString ==
    /\ iopc = "Written"
    /\ parsed' = from_string(content)
    /\ iopc' = "Parsed"
    /\ UNCHANGED <<crossbar, content>>
    /\ UNCHANGED nonIoVars

IoNext == WriteString \/ ReadString

\* A crossbar written to a text and read back.
SpecIO == IoInit /\ [][IoNext]_vars

(***************************************************************************)
(* Claims about ISO.find.                                                  *)
(***************************************************************************)
Instructions(k) == Range(cycles[k])

\* C1: every Evaluate(h) of the schedule lies at or after a Load(h), and h is
\* resident when it is evaluated: h is a fixed pattern loaded in the initial
\* cycle, or h is the non-fixed pattern loaded last (no Load of another
\* pattern lies between that Load(h) and the Evaluate(h)).
C1_EvaluateOnlyResident ==
    \A k \in 1..Len(cycles) :
      \A ins \in Instructions(k) :
        ins.type = "EVAL" =>
          \/ ins.hash \in fixed_bdds /\ k > 1 /\ LOAD(ins.hash) \in Instructions(1)
          \/ /\ ins.hash \notin fixed_bdds
             /\ \E j \in 1..k :
                  /\ LOAD(ins.hash) \in Instructions(j)
                  /\ \A j2 \in (j + 1)..k :
                       \A other \in Instructions(j2) :
                         other.type = "LOAD" => other.hash = ins.hash

\* A finished schedule in which a non-fixed pattern is loaded after another
\* one was evicted, and is evaluated again in the next generation while resident.
C1_Witness ==
    /\ pc = "Done"
    /\ \E k \in 3..Len(cycles) :
         \E h \in Range(Hashes) :
           /\ h \notin fixed_bdds
           /\ EVAL(h) \in Instructions(k)
           /\ EVAL(h) \in Instructions(k - 1)
           /\ LOAD(h) \in Instructions(k - 2)
           /\ \E j \in 1..(k - 3) : \E g \in Range(Hashes) : g # h /\ LOAD(g) \in Instructions(j)

\* The feasibility of a prefix length as the claims state it: the first k
\* patterns are fixed, one of the others is resident at a time.
PrefixFeasible(values, budget, k) ==
    LET rest == (k + 1)..Len(values)
        rowsum == SumSeq([j \in 1..k |-> values[j][2]])
        colsum == SumSeq([j \in 1..k |-> values[j][3]])
        maxrow == IF rest = {} THEN 0
                  ELSE CHOOSE x \in {values[j][2] : j \in rest} : \A j \in rest : values[j][2] <= x
        maxcol == IF rest = {} THEN 0
                  ELSE CHOOSE x \in {values[j][3] : j \in rest} : \A j \in rest : values[j][3] <= x
    IN /\ rowsum <= budget
       /\ colsum <= budget
       /\ rowsum + maxrow <= budget
       /\ colsum + maxcol <= budget

\* The patterns in descending (occurrence_count, row_count, column_count) order.
IsDescending(values) ==
    \A j \in 1..(Len(values) - 1) : ~KeyGreater(values[j + 1], values[j])

\* C3: when prefix length 0 is feasible for D, the binary search ends with
\* the largest feasible prefix length of the patterns in descending
\* (occurrence_count, row_count, column_count) order.
C3_MidIsLargestFeasible ==
    LET values == SortedValues(bdd_pattern_stats)
    IN (pc # "Fitting" /\ PrefixFeasible(values, D, 0)) =>
         /\ IsDescending(values)
         /\ mid \in 0..Len(values)
         /\ PrefixFeasible(values, D, mid)
         /\ \A k \in (mid + 1)..Len(values) : ~PrefixFeasible(values, D, k)

\* A search that ended strictly inside the table: some patterns are fixed,
\* others are not, and the table was not in descending order at first.
C3_Witness ==
    /\ pc = "Emitting"
    /\ Len(bdd_pattern_stats) = 3
    /\ mid = 1
    /\ bdd_pattern_stats # SortedStats(bdd_pattern_stats)

\* C4: when some pattern has more rows than D or more columns than D, the
\* fitting ends in the capacity error and no cycle is emitted, also when the
\* search leaves mid at -1.
C4_InfeasibleBudgetFails ==
    (/\ pc \notin {"Idle", "Discovering", "Leveling", "Fitting"}
     /\ D # NoBudget
     /\ \E n \in DOMAIN bdds : bdds[n].nodes > D \/ bdds[n].edges > D)
    => (pc = "Failed" /\ cycles = <<>>)

\* The search ended with mid = -1 on a table of two patterns of which only
\* the first one is too large.
C4_Witness ==
    /\ pc = "Failed"
    /\ mid = -1
    /\ Len(bdd_pattern_stats) = 2
    /\ SortedValues(bdd_pattern_stats)[2][2] <= D
    /\ SortedValues(bdd_pattern_stats)[1][2] > D

\* C5: after the leveling has reached its fixed point no generation holds
\* two nodes with the same pattern hash.
C5_NoDuplicateHashInGeneration ==
    pc \notin {"Idle", "Discovering", "Leveling"} =>
      \A g \in 1..Len(generations) :
        \A a, b \in 1..Len(generations[g]) :
          a # b => HashGet(root_node_to_hash, generations[g][a]) # HashGet(root_node_to_hash, generations[g][b])

\* A leveling that had to push nodes down twice out of one generation.
C5_Witness ==
    /\ pc = "Fitting"
    /\ Len(topology) = 2
    /\ Len(generations) = 4
    /\ \A g \in 1..4 : Len(generations[g]) = 1

(***************************************************************************)
(* Claims about the crossbar.                                              *)
(***************************************************************************)
\* The memristor at k lies on the nanowire <<layer, index>>: in the memristor
\* layer above the nanowire or in the one below it.
OnNanowire(k, nanowire) ==
    \/ k[1] = nanowire[1] /\ (IF k[1] % 2 = 0 THEN k[2] ELSE k[3]) = nanowire[2]
    \/ k[1] = nanowire[1] - 1 /\ (IF k[1] % 2 = 0 THEN k[3] ELSE k[2]) = nanowire[2]

\* The literal of the memristor at k once the nanowires of the input rails
\* other than f are forced to never-conducting and the remaining literals are
\* instantiated.
SelectedLiteral(xb, instance, f, k) ==
    IF \E g \in DOMAIN xb.input_nanowires \ {f} : OnNanowire(k, xb.input_nanowires[g])
    THEN LitFalse
    ELSE IF xb.matrix[k].literal \in {LitTrue, LitFalse} THEN xb.matrix[k].literal
    ELSE IF xb.matrix[k].literal.positive = instance[xb.matrix[k].literal.atom]
    THEN LitTrue ELSE LitFalse

\* The nanowires that the always-conducting memristors connect.
SelectedEdges(xb, instance, f) ==
    {[u |-> <<k[1], IF k[1] % 2 = 0 THEN k[2] ELSE k[3]>>,
      v |-> <<k[1] + 1, IF k[1] % 2 = 0 THEN k[3] ELSE k[2]>>] :
       k \in {j \in DOMAIN xb.matrix : SelectedLiteral(xb, instance, f, j) = LitTrue}}

\* C2: MemristorCrossbar.eval(instance, f) returns, for every output rail o,
\* true exactly when the nanowire of o is connected to the nanowire of the
\* input rail f through always-conducting memristors, in the crossbar in which
\* every memristor on the nanowire of another input rail is never-conducting
\* (whatever the layer of that rail) and every other literal is instantiated.
C2_EvalIsSelectedConnectivity ==
    (/\ last.op = "eval"
     /\ last.before.kind = "MemristorCrossbar"
     /\ last.input_function \in DOMAIN last.before.input_nanowires
     /\ DOMAIN last.instance = Atoms)
    => /\ last.raised = None
       /\ last.value = [o \in DOMAIN last.before.output_nanowires |->
                          has_path(SelectedEdges(last.before, last.instance, last.input_function),
                                   last.before.output_nanowires[o],
                                   last.before.input_nanowires[last.input_function])]

\* C7: instantiate returns a new crossbar and leaves the receiver unchanged:
\* after the call every memristor of the receiver holds the literal it held
\* before the call, for both classes of crossbar.
C7_InstantiateLeavesReceiver ==
    (last.op = "instantiate" /\ last.raised = None)
    => /\ ~last.returns_self
       /\ \A k \in DOMAIN last.before.matrix :
            crossbar.matrix[k].literal = last.before.matrix[k].literal

\* C8: evaluating the crossbar instantiate(instance) returned, with the same
\* instance, yields what evaluating the original crossbar with that instance
\* yields, for every input function.
C8_InstantiateThenEval ==
    (last.op = "instantiate" /\ last.raised = None)
    => \A input_function \in InputFunctions :
         \A order \in Orders(DOMAIN last.before.input_nanowires \ {input_function}) :
           LET instantiated == eval(last.returned, last.instance, input_function, order)
               original == eval(last.before, last.instance, input_function, order)
           IN /\ instantiated.raised = original.raised
              /\ instantiated.value = original.value

\* instantiate rewrote a literal to always-conducting and another one to
\* never-conducting, and an output of the returned crossbar evaluates to true.
C8_Witness ==
    /\ last.op = "instantiate"
    /\ last.raised = None
    /\ \E k \in DOMAIN last.before.matrix :
         /\ ~IsConstant(last.before.matrix[k].literal)
         /\ last.returned.matrix[k].literal = LitTrue
    /\ \E k \in DOMAIN last.before.matrix :
         /\ ~IsConstant(last.before.matrix[k].literal)
         /\ last.returned.matrix[k].literal = LitFalse
    /\ \E input_function \in DOMAIN last.before.input_nanowires :
         \E order \in Orders(DOMAIN last.before.input_nanowires \ {input_function}) :
           LET instantiated == eval(last.returned, last.instance, input_function, order)
           IN /\ instantiated.raised = None
              /\ \E o \in DOMAIN instantiated.value : instantiated.value[o]

(***************************************************************************)
(* Claims about Topology.eval.                                             *)
(***************************************************************************)
\* C9: during Topology.eval a signal name that maps to true in the running
\* evaluations map, the seeded primary input function included, maps to true
\* after every later step: no merge and no other update sets it to false.
C9_TrueStaysTrue ==
    [][\A key \in DOMAIN evaluations :
         evaluations[key] => key \in DOMAIN evaluations' /\ evaluations'[key]]_vars

(***************************************************************************)
(* Claims about the 2D mapper.                                             *)
(***************************************************************************)
\* Every edge has one endpoint assigned Horizontal (or Both) and the other
\* assigned Vertical (or Both).
EdgeConstraints ==
    \A i \in 1..Len(self_graph.edges) :
      LET a == self_graph.edges[i].node_a
          b == self_graph.edges[i].node_b
      IN \/ vh_labeling[a] # 1 /\ vh_labeling[b] # -1
         \/ vh_labeling[b] # 1 /\ vh_labeling[a] # -1

\* With io_constraints, the terminal and the root of an edge are assigned
\* Horizontal (or Both).
IoConstraints ==
    io_constraints =>
      \A i \in 1..Len(self_graph.edges) :
        \A n \in {self_graph.edges[i].node_a, self_graph.edges[i].node_b} :
          (self_graph.data[n].terminal \/ self_graph.data[n].root) => vh_labeling[n] # 1

\* _edge_assignment has run, or has raised.
EdgesAssigned == mpc \in {"Placed", "Mapped", "RaisedRail", "RaisedPlacement", "RaisedUnvisited"}

\* The literal of every edge is placed at (r, c), r the index of one endpoint
\* in horizontal and c the index of the other in vertical, inside the crossbar.
EveryEdgePlaced ==
    /\ mpc \notin {"RaisedRail", "RaisedPlacement"}
    /\ \A i \in 1..Len(self_graph.edges) :
         \E k \in 1..Len(placements) :
           LET p == placements[k]
               e == self_graph.edges[i]
           IN /\ p.edge = i
              /\ p.literal = e.literal
              /\ p.r \in 0..(crossbar.rows - 1)
              /\ p.c \in 0..(crossbar.columns - 1)
              /\ p.r < Len(horizontal) /\ p.c < Len(vertical)
              /\ {horizontal[p.r + 1], vertical[p.c + 1]} = {e.node_a, e.node_b}

C10_RoundTrip ==
    iopc = "Parsed" =>
      /\ parsed.raised = None
      /\ parsed.crossbar.rows = crossbar.rows
      /\ parsed.crossbar.columns = crossbar.columns
      /\ parsed.crossbar.input_nanowires = crossbar.input_nanowires
      /\ parsed.crossbar.output_nanowires = crossbar.output_nanowires
      /\ \A k \in DOMAIN crossbar.matrix :
           /\ k \in DOMAIN parsed.crossbar.matrix
           /\ parsed.crossbar.matrix[k].literal.atom = crossbar.matrix[k].literal.atom
           /\ parsed.crossbar.matrix[k].literal.positive = crossbar.matrix[k].literal.positive

(***************************************************************************)
(* Claims about the cycle count of ISO.find.                               *)
(***************************************************************************)
\* The run has emitted its schedule under a budget.
Scheduled == pc = "Done" /\ D # NoBudget

C12_FeasibleIsMonotone ==
    LET values == SortedValues(bdd_pattern_stats)
    IN /\ IsDescending(values)
       /\ \A k \in 0..Len(values) :
            Feasible(values, D, k) => \A j \in 0..k : Feasible(values, D, j)

\* The fit has run on a table of three patterns that was not sorted at
\* first: prefix lengths 0 and 1 are feasible, 2 and 3 are not.
C12_Witness ==
    LET values == SortedValues(bdd_pattern_stats)
    IN /\ pc = "Emitting"
       /\ Len(values) = 3
       /\ bdd_pattern_stats # SortedStats(bdd_pattern_stats)
       /\ Feasible(values, D, 0)
       /\ Feasible(values, D, 1)
       /\ ~Feasible(values, D, 2)
       /\ ~Feasible(values, D, 3)

(***************************************************************************)
(* Claims about the setters and the transforms of a crossbar.              *)
(***************************************************************************)
\* An entry of a rail map is a pair (layer, index) on a nanowire of the
\* crossbar: the nanowire layers are 0..layers, with rows nanowires on the even
\* layers and columns nanowires on the odd ones.
ValidRail(xb, entry) ==
    /\ Len(entry) = 2
    /\ entry[1] \in 0..xb.layers
    /\ entry[2] \in 0..((IF entry[1] % 2 = 0 THEN xb.rows ELSE xb.columns) - 1)

\* C13: after any sequence of set_memristor, set_input_nanowire,
\* set_output_nanowire, flip_horizontal, flip_vertical and transpose, every
\* entry of the two rail maps is a (layer, index) pair on a nanowire of the
\* crossbar and every cell lies within rows x columns x layers.
C13_RailsAndCellsInBounds ==
    /\ \A name \in DOMAIN crossbar.input_nanowires :
         ValidRail(crossbar, crossbar.input_nanowires[name])
    /\ \A name \in DOMAIN crossbar.output_nanowires :
         ValidRail(crossbar, crossbar.output_nanowires[name])
    /\ DOMAIN crossbar.matrix = Cells(crossbar.rows, crossbar.columns, crossbar.layers)

(***************************************************************************)
(* Claims about the labeling.                                              *)
(***************************************************************************)
\* label has returned.
Labelled == mpc \notin {"Off", "Labeling"}

\* C14: the labeling has exactly one entry per node of the diagram, every
\* node has inV or inH set, and a node is labelled Both (0) exactly when both
\* its inV and its inH are set.
C14_LabelsMatchAxes ==
    Labelled =>
      /\ DOMAIN vh_labeling = Range(self_graph.nodes)
      /\ \A v \in Range(self_graph.nodes) :
           /\ x_vars[v].V \/ x_vars[v].H
           /\ vh_labeling[v] = 0 <=> (x_vars[v].V /\ x_vars[v].H)


\* A closed walk along the edges of the graph.
HasDirectedCycle(n, edges) ==
    \E k \in 1..n : \E walk \in [1..(k + 1) -> 1..n] :
       /\ walk[1] = walk[k + 1]
       /\ \A j \in 1..k : \E e \in DOMAIN edges : edges[e] = <<walk[j], walk[j + 1]>>

\* C15: Topology.eval on a topology whose graph holds a directed cycle ends in
\* the structural error of the sort and never returns an evaluation map, also
\* when crossbars outside the cycle were evaluated first. Every step of the
\* call advances it, so it ends; the only state in which it can have stopped
\* is the one where NetworkXUnfeasible has left eval.
C15_CycleIsFatal ==
    HasDirectedCycle(Len(topo_nodes), topo_edges) /\ tpc # "Off"
      => /\ tpc # "Returned"
         /\ tpc # "NetworkXUnfeasible" => Running

\* The error was raised after a crossbar outside the cycle had been evaluated.
C15_Witness ==
    /\ tpc = "NetworkXUnfeasible"
    /\ HasDirectedCycle(Len(topo_nodes), topo_edges)
    /\ node_index >= 1
    /\ "w" \in DOMAIN evaluations


\* The cells that hold a non-constant literal whose atom is not a key of the
\* instance.
HoldsUnbound(xb, instance) ==
    {k \in DOMAIN xb.matrix :
       /\ ~IsConstant(xb.matrix[k].literal)
       /\ xb.matrix[k].literal.atom \notin DOMAIN instance}

\* The cells eval overwrites with FALSE() before it instantiates: the rows of
\* the input rails other than the input function.
ForcedCells(xb, input_function) ==
    {k \in DOMAIN xb.matrix :
       \E name \in DOMAIN xb.input_nanowires \ {input_function} :
          xb.input_nanowires[name] = <<k[1], k[2]>>}

\* C16 as stated: instantiate and eval of a MemristorCrossbar end in an error
\* whenever some cell holds a non-constant literal whose atom is not a key of
\* the instance.
C16_UnboundIsFatal ==
    /\ last.op \in {"instantiate", "eval"}
    /\ last.before.kind = "MemristorCrossbar"
    /\ HoldsUnbound(last.before, last.instance) # {}
    => last.raised # None

\* C16: instantiate of a MemristorCrossbar ends in an error whenever some cell
\* holds a non-constant literal whose atom is not a key of the instance; eval
\* ends in an error whenever such a cell lies outside the rows of the other
\* input rails, which it sets to FALSE() before it instantiates.
C16_UnboundIsFatalUnlessForced ==
    /\ last.op \in {"instantiate", "eval"}
    /\ last.before.kind = "MemristorCrossbar"
    => /\ last.op = "instantiate" /\ HoldsUnbound(last.before, last.instance) # {}
          => last.raised = "KeyError" /\ ~last.returns_self
       /\ last.op = "eval"
          /\ HoldsUnbound(last.before, last.instance)
               \ ForcedCells(last.before, last.input_function) # {}
          => last.raised # None /\ DOMAIN last.value = {}

\* eval forced the row of another input rail, a cell outside that row holds a
\* literal of an unbound atom, and the call raised KeyError.
C16_Witness ==
    /\ last.op = "eval"
    /\ last.before.kind = "MemristorCrossbar"
    /\ ForcedCells(last.before, last.input_function) # {}
    /\ HoldsUnbound(last.before, last.instance)
         \ ForcedCells(last.before, last.input_function) # {}
    /\ last.raised = "KeyError"


\* C17: after set_memristor(row, column, literal, layer, stuck_at_fault=True)
\* with a non-constant literal, instantiate leaves the literal of that cell
\* unchanged, whatever the instance.
C17_StuckIsUntouched ==
    /\ last.op = "instantiate"
    /\ last.stuck_at_fault
    /\ ~IsConstant(last.before.matrix[last.cell].literal)
    => crossbar.matrix[last.cell].literal = last.before.matrix[last.cell].literal


\* What eval(instance, input_function) gives on a crossbar: the error or the
\* output map, for every order in which the dict yields the other input rails.
EvalResults(xb, instance, input_function) ==
    {[raised |-> eval(xb, instance, input_function, order).raised,
      value |-> eval(xb, instance, input_function, order).value] :
       order \in Orders(DOMAIN xb.input_nanowires \ {input_function})}

\* C18: after flip_horizontal, flip_vertical or transpose every rail name is
\* still bound to a (layer, index) pair, and for every instance and input
\* function eval gives what it gave on the crossbar before the transform.
C18_TransformsKeepEval ==
    /\ last.op \in {"flip_horizontal", "flip_vertical", "transpose"}
    /\ last.raised = None
    => /\ \A name \in DOMAIN crossbar.input_nanowires : Len(crossbar.input_nanowires[name]) = 2
       /\ \A name \in DOMAIN crossbar.output_nanowires : Len(crossbar.output_nanowires[name]) = 2
       /\ \A instance \in [Atoms -> BOOLEAN], input_function \in InputFunctions :
            EvalResults(crossbar, instance, input_function)
              = EvalResults(last.before, instance, input_function)


TwoColourable(g) ==
    \E x \in XVars(g) :
      /\ LpFeasible(g, FALSE, x)
      /\ \A v \in Range(g.nodes) : x[v].V # x[v].H

\* C20: with gamma = 1 and io_constraints off, every node of a diagram whose
\* edge graph can be two-coloured is labelled to exactly one axis (1 or -1).
C20_GammaOneLabelsOneAxis ==
    Labelled /\ gamma = 2 /\ ~io_constraints /\ TwoColourable(self_graph)
      => \A v \in Range(self_graph.nodes) : vh_labeling[v] \in {1, -1}


(***************************************************************************)
(* Claims about the emitted schedule.                                      *)
(***************************************************************************)
\* The cycles cs are what the emission is stated to produce for the
\* generations rev, with variable resident at the start: per generation one
\* cycle of Evaluates of the available patterns, if any, then a cycle [Load]
\* and a cycle [Evaluate] for each remaining pattern, the last of them staying
\* resident.
RECURSIVE EmittedAsStated(_, _, _)
EmittedAsStated(rev, variable, cs) ==
    IF rev = <<>> THEN cs = <<>>
    ELSE LET patterns == {HashGet(root_node_to_hash, r) : r \in Range(Head(rev))}
             available == {h \in patterns : h \in fixed_bdds \/ h = variable}
             remaining == patterns \ available
             n == Cardinality(remaining)
             first == IF available = {} THEN 0 ELSE 1
         IN /\ Len(cs) >= first + 2 * n
            /\ available # {} =>
                 /\ Len(cs[1]) = Cardinality(available)
                 /\ Range(cs[1]) = {EVAL(h) : h \in available}
            /\ \E order \in Orders(remaining) :
                 /\ \A i \in 1..n :
                      /\ cs[first + 2 * i - 1] = <<LOAD(order[i])>>
                      /\ cs[first + 2 * i] = <<EVAL(order[i])>>
                 /\ EmittedAsStated(Tail(rev), IF n > 0 THEN order[n] ELSE variable,
                                    SubSeq(cs, first + 2 * n + 1, Len(cs)))

\* C23: the schedule is one initial cycle of a Load per fixed pattern (none
\* when mid = 0), then, for each leveled generation in input-to-output order
\* after the skipped one, the Evaluate cycle of its available patterns and a
\* [Load], [Evaluate] pair of cycles for each of its other patterns.
C23_EmissionAsStated ==
    Scheduled =>
      LET keys == SortedKeys(bdd_pattern_stats)
          initial == IF mid > 0 THEN 1 ELSE 0
      IN /\ Len(cycles) >= initial
         /\ mid > 0 => cycles[1] = [k \in 1..mid |-> LOAD(keys[k])]
         /\ fixed_bdds = {keys[k] : k \in 1..mid}
         /\ EmittedAsStated(ReversedGenerations(generations), None,
                            SubSeq(cycles, initial + 1, Len(cycles)))

\* A schedule with an initial cycle of Loads, a cycle of Evaluates of a fixed
\* pattern and a [Load], [Evaluate] pair of another pattern.
C23_Witness ==
    /\ Scheduled
    /\ mid > 0
    /\ \E k \in 2..(Len(cycles) - 2) : \E h, g \in Range(Hashes) :
         /\ h \in fixed_bdds
         /\ g \notin fixed_bdds
         /\ cycles[k] = <<EVAL(h)>>
         /\ cycles[k + 1] = <<LOAD(g)>>
         /\ cycles[k + 2] = <<EVAL(g)>>


\* The position in generations of the leveled generation that holds the node
\* (0 when none does).
GenerationOfNode(node) ==
    IF \E g \in 1..Len(generations) : node \in Range(generations[g])
    THEN CHOOSE g \in 1..Len(generations) : node \in Range(generations[g])
    ELSE 0

\* C25: for every feasible budget, every node with a sub-diagram lies in a
\* leveled generation that is emitted, and the schedule holds an Evaluate of
\* its pattern hash.
C25_EveryPatternNodeIsEvaluated ==
    Scheduled =>
      \A node \in BddNodes(bdds) :
        /\ GenerationOfNode(node) \in 1..Len(ReversedGenerations(generations))
        /\ \E k \in 1..Len(cycles) : EVAL(bdds[node].hash) \in Instructions(k)


\* The position in topology of the generation that holds the node.
TopologyGenerationOf(node) ==
    CHOOSE g \in 1..Len(topology) : node \in Range(topology[g])

\* The topology is kept as the generations of its reverse (line 76): it can
\* hold an edge u -> v exactly when u lies in a later one of them than v.
MayFeed(u, v) == TopologyGenerationOf(u) > TopologyGenerationOf(v)

\* The place of a leveled generation in the emission loop of lines 265-290,
\* 0 when the loop never visits it.
EmissionIndex(g) == IF g < Len(generations) THEN Len(generations) - g ELSE 0

\* C26: for two nodes with sub-diagrams where u can feed v, the leveled
\* generation of u is emitted, and strictly before the one of v.
C26_DependenciesPreserved ==
    pc \in {"Emitting", "Done"} /\ D # NoBudget =>
      \A u, v \in BddNodes(bdds) :
        MayFeed(u, v) =>
          /\ EmissionIndex(GenerationOfNode(u)) >= 1
          /\ EmissionIndex(GenerationOfNode(u)) < EmissionIndex(GenerationOfNode(v))


\* The row count (i = 2) or column count (i = 3) of the pattern h in
\* bdd_pattern_stats; nothing for None.
Footprint(h, i) ==
    IF \E k \in 1..Len(bdd_pattern_stats) : bdd_pattern_stats[k][1] = h
    THEN bdd_pattern_stats[CHOOSE k \in 1..Len(bdd_pattern_stats) : bdd_pattern_stats[k][1] = h][2][i]
    ELSE 0

RECURSIVE FootprintSum(_, _)
FootprintSum(hs, i) ==
    IF hs = {} THEN 0
    ELSE LET h == CHOOSE x \in hs : TRUE IN Footprint(h, i) + FootprintSum(hs \ {h}, i)

\* The variable pattern resident after cycle k: the one loaded last outside
\* the fixed patterns.
ResidentAfter(k) ==
    LET loads == {j \in 1..k : \E ins \in Instructions(j) :
                                 ins.type = "LOAD" /\ ins.hash \notin fixed_bdds}
    IN IF loads = {} THEN None
       ELSE cycles[CHOOSE j \in loads : \A j2 \in loads : j2 <= j][1].hash

\* C27: when the fit succeeded, after every cycle of the schedule the fixed
\* patterns and the resident variable pattern together have at most D rows
\* and at most D columns.
C27_BudgetHoldsAtEveryCycle ==
    pc \in {"Emitting", "Done"} /\ D # NoBudget =>
      \A k \in 1..Len(cycles) : \A i \in {2, 3} :
        FootprintSum(fixed_bdds, i) + Footprint(ResidentAfter(k), i) <= D

\* A schedule in which, after some cycle, fixed patterns and a resident
\* variable pattern fill the row budget exactly.
C27_Witness ==
    /\ Scheduled
    /\ fixed_bdds # {}
    /\ \E k \in 1..Len(cycles) :
         /\ ResidentAfter(k) # None
         /\ FootprintSum(fixed_bdds, 2) + Footprint(ResidentAfter(k), 2) = D


(***************************************************************************)
(* Claims about the leveling worklist.                                     *)
(***************************************************************************)
\* C30: the worklist loop ends; a generation of pushed-down duplicates is
\* strictly smaller than the generation it came from; and when the loop has
\* ended every node with a sub-diagram lies in exactly one generation, once.
C30_LevelingTerminates ==
    /\ <>(pc = "Done")
    /\ [][(pc' = "Leveling" /\ Len(generations') >= Len(generations))
            => /\ Len(generations') = Len(generations)
               /\ Len(generations'[1]) < Len(generations[1])]_vars
    /\ [](pc = "Done" =>
            \A node \in BddNodes(bdds) :
              Cardinality({<<g, k>> \in (1..Len(generations)) \X (1..Cardinality(RootNodes)) :
                             k <= Len(generations[g]) /\ generations[g][k] = node}) = 1)

\* The loop ended after two generations of duplicates were pushed out of one
\* generation of three nodes with the same pattern.
C30_Witness ==
    /\ pc = "Done"
    /\ new_generations # <<>>
    /\ \E g \in 1..Len(topology) : Cardinality(Range(topology[g]) \cap BddNodes(bdds)) = 3
    /\ \E g \in 1..(Len(generations) - 2) :
         /\ Len(generations[g]) = 1
         /\ Len(generations[g + 1]) = 1
         /\ Len(generations[g + 2]) = 1
         /\ HashGet(root_node_to_hash, generations[g][1]) = HashGet(root_node_to_hash, generations[g + 1][1])
         /\ HashGet(root_node_to_hash, generations[g][1]) = HashGet(root_node_to_hash, generations[g + 2][1])


(***************************************************************************)
(* Claims about the frame of MemristorCrossbar.eval.                       *)
(***************************************************************************)
\* C24: evaluating a memristor crossbar does not change it: after
\* eval(instance, f) every memristor holds the literal it held before the
\* call, and a later eval with any input function returns what it returns on
\* the crossbar as it was before the first call.
C24_EvalLeavesCrossbar ==
    (/\ last.op = "eval"
     /\ last.before.kind = "MemristorCrossbar"
     /\ last.raised = None)
    => /\ \A k \in DOMAIN last.before.matrix :
            crossbar.matrix[k].literal = last.before.matrix[k].literal
       /\ \A instance \in Instances, input_function \in InputFunctions :
            \A order \in Orders(DOMAIN last.before.input_nanowires \ {input_function}) :
              LET later == eval(crossbar, instance, input_function, order)
                  fresh == eval(last.before, instance, input_function, order)
              IN /\ later.raised = fresh.raised
                 /\ later.value = fresh.value


(***************************************************************************)
(* Claims about the Direct Mapper.                                         *)
(***************************************************************************)
\* The column c holds the literal of the edge at the row of its source,
\* always-conducting at the row of its target and never-conducting elsewhere.
ColumnOfEdge(xb, g, e, c) ==
    \A r \in 0..(xb.rows - 1) :
      xb.matrix[<<0, r, c>>].literal =
        IF r = Index(g.nodes, e.node_a) THEN e.literal
        ELSE IF r = Index(g.nodes, e.node_b) THEN LitTrue
        ELSE LitFalse

\* The diagram has a terminal of the value true.
HasTrueTerminal(g) ==
    \E k \in 1..Len(g.nodes) :
      g.data[g.nodes[k]].terminal /\ g.data[g.nodes[k]].variable = TrueTerminal

\* eval with the input function of the true-terminal returns, for every
\* output name of every root, true exactly when the path from the root under
\* the instance ends in the true-terminal.
ComputesDiagram(xb, g) ==
    \A instance \in DdInstances :
      \A order \in Orders(DOMAIN xb.input_nanowires \ {TrueTerminal}) :
        LET outcome == eval(xb, instance, TrueTerminal, order)
        IN /\ outcome.raised = None
           /\ \A k \in 1..Len(g.nodes) :
                g.data[g.nodes[k]].root =>
                  \A name \in g.data[g.nodes[k]].output_variables :
                    /\ name \in DOMAIN outcome.value
                    /\ outcome.value[name] = (Follow(g, g.nodes[k], instance) = TrueTerminal)

\* C29: for every well-formed decision diagram (with a true-terminal) the
\* crossbar of the Direct Mapper has one row per node and one column per edge,
\* the column of an edge holding the literal of the edge at the row of the
\* parent, always-conducting at the row of the child and never-conducting
\* elsewhere, and the crossbar computes the diagram.
C29_DirectMapperComputesDiagram ==
    (mpc = "DirectMapped" /\ IsWellFormed(self_graph) /\ HasTrueTerminal(self_graph))
    => /\ crossbar.rows = Len(self_graph.nodes)
       /\ crossbar.columns = Len(self_graph.edges)
       /\ \A i \in 1..Len(self_graph.edges) :
            \E c \in 0..(crossbar.columns - 1) :
              ColumnOfEdge(crossbar, self_graph, self_graph.edges[i], c)
       /\ ComputesDiagram(crossbar, self_graph)


(***************************************************************************)
(* Claims about PATH with the Unconstrained strategy.                      *)
(***************************************************************************)
\* The crossbar has a row per diagram node and a column per diagram edge; the
\* cell of a node and an edge is always-conducting when the node is an
\* endpoint of the edge and never-conducting otherwise; the row of a root is
\* the output rail of each of its output names and the row of a terminal is
\* an input rail.
IncidenceCrossbar(xb, g, wordlines, selectorlines) ==
    /\ xb.rows = Len(g.nodes)
    /\ xb.columns = Len(g.edges)
    /\ \A k \in 1..Len(g.nodes) : In(wordlines, NodeVertex(g.nodes[k]))
    /\ \A i \in 1..Len(g.edges) : In(selectorlines, EdgeVertex(i))
    /\ \A k \in 1..Len(g.nodes), i \in 1..Len(g.edges) :
         LET cell == <<0, Index(wordlines, NodeVertex(g.nodes[k])),
                       Index(selectorlines, EdgeVertex(i))>>
         IN /\ cell \in DOMAIN xb.matrix
            /\ xb.matrix[cell].literal =
                 IF g.nodes[k] \in {g.edges[i].node_a, g.edges[i].node_b}
                 THEN LitTrue ELSE LitFalse
    /\ \A k \in 1..Len(g.nodes) :
         LET d == g.data[g.nodes[k]]
             row == <<0, Index(wordlines, NodeVertex(g.nodes[k]))>>
         IN /\ d.root => \A name \in d.output_variables :
                           /\ name \in DOMAIN xb.output_nanowires
                           /\ xb.output_nanowires[name] = row
            /\ d.terminal => \E name \in DOMAIN xb.input_nanowires :
                               xb.input_nanowires[name] = row

\* C22: for every non-empty diagram with n nodes and m edges PATH with the
\* Unconstrained strategy returns a topology of one crossbar with n rows and
\* m columns, the cell of node x and edge e always-conducting exactly when x
\* is an endpoint of e and never-conducting otherwise, every root's row the
\* output rail of each of its output names and every terminal's row an input
\* rail.
C22_UnconstrainedIsIncidence ==
    mpc \notin {"Constructed", "DirectMapped"}
    => /\ mpc = "Partitioned"
       /\ Len(topo_nodes) = 1
       /\ topo_nodes[1] = crossbar
       /\ IncidenceCrossbar(crossbar, self_graph, horizontal, vertical)


\* The diagram has two nodes, a terminal and a root that is no terminal, and
\* one edge, from the root to the terminal on the positive literal of the
\* root's variable.
TwoNodeDiagram(g, terminal, root) ==
    /\ Len(g.nodes) = 2
    /\ {terminal, root} = Range(g.nodes)
    /\ g.data[terminal].terminal /\ ~g.data[terminal].root
    /\ g.data[root].root /\ ~g.data[root].terminal
    /\ g.edges = <<[node_a |-> root, node_b |-> terminal,
                    literal |-> LITERAL(g.data[root].variable, TRUE)]>>

\* The claim as worded: 2 rows, 1 column, (variable, true) at cell (0, 0), the
\* terminal's input rail at row 0 and the root's output rail at row 1.
C21_TwoNodeScenarioAsWorded ==
    \A terminal, root \in 1..2 :
      (mpc = "DirectMapped" /\ TwoNodeDiagram(self_graph, terminal, root))
      => /\ crossbar.rows = 2
         /\ crossbar.columns = 1
         /\ crossbar.matrix[<<0, 0, 0>>].literal = LITERAL(self_graph.data[root].variable, TRUE)
         /\ crossbar.input_nanowires = [name \in {self_graph.data[terminal].variable} |-> <<0, 0>>]
         /\ crossbar.output_nanowires =
              [name \in self_graph.data[root].output_variables |-> <<0, 1>>]

\* C21 (amended): for the 2-node diagram the Direct Mapper yields a crossbar
\* of 2 rows and 1 column with (variable, true) in the row of the root and
\* always-conducting in the row of the terminal, the terminal's input rail on
\* the terminal's row and the root's output rails on the root's row, the rows
\* numbered in the order of the nodes: with the terminal first, cell (0, 0)
\* is always-conducting and cell (1, 0) holds (variable, true).
C21_TwoNodeScenario ==
    \A terminal, root \in 1..2 :
      (mpc = "DirectMapped" /\ TwoNodeDiagram(self_graph, terminal, root))
      => /\ crossbar.rows = 2
         /\ crossbar.columns = 1
         /\ crossbar.matrix[<<0, Index(self_graph.nodes, root), 0>>].literal =
              LITERAL(self_graph.data[root].variable, TRUE)
         /\ crossbar.matrix[<<0, Index(self_graph.nodes, terminal), 0>>].literal = LitTrue
         /\ crossbar.input_nanowires =
              [name \in {self_graph.data[terminal].variable} |->
                 <<0, Index(self_graph.nodes, terminal)>>]
         /\ crossbar.output_nanowires =
              [name \in self_graph.data[root].output_variables |->
                 <<0, Index(self_graph.nodes, root)>>]
         /\ self_graph.nodes[1] = terminal
              => /\ crossbar.matrix[<<0, 0, 0>>].literal = LitTrue
                 /\ crossbar.matrix[<<0, 1, 0>>].literal =
                      LITERAL(self_graph.data[root].variable, TRUE)
                 /\ crossbar.input_nanowires[self_graph.data[terminal].variable] = <<0, 0>>
                 /\ \A name \in self_graph.data[root].output_variables :
                      crossbar.output_nanowires[name] = <<0, 1>>

\* The Direct Mapper has mapped the 2-node diagram whose first node is the
\* true-terminal and whose second node is the root.
C21_Witness ==
    /\ mpc = "DirectMapped"
    /\ TwoNodeDiagram(self_graph, 1, 2)
    /\ self_graph.data[1].variable = TrueTerminal
    /\ crossbar.input_nanowires[TrueTerminal] = <<0, 0>>


(***************************************************************************)
(* Claims about the 2D mapper on decision diagrams.                        *)
(***************************************************************************)
\* The mapper has returned or raised.
MapEnded == mpc \in {"Mapped", "RaisedRail", "RaisedPlacement", "RaisedUnvisited"}

\* C28: for every well-formed decision diagram (with a true-terminal) and
\* every labeling that satisfies the edge constraints and the io constraints
\* the 2D mapper returns a crossbar that computes the diagram: for every
\* instance and output name, eval with the input function of the
\* true-terminal returns true exactly when the path from the output's root
\* under the instance ends in the true-terminal.
C28_Mapper2DComputesDiagram ==
    (/\ MapEnded
     /\ IsWellFormed(self_graph)
     /\ HasTrueTerminal(self_graph)
     /\ EdgeConstraints
     /\ IoConstraints)
    => /\ mpc = "Mapped"
       /\ ComputesDiagram(crossbar, self_graph)

====
